---- MODULE Spec2Model ----
(***************************************************************************)
(* Model of lcmigrate: the pre-flight validator (preflight.Run), the       *)
(* migration orchestrator (migrator.Run and its six stage functions) and   *)
(* the batched data transferer (BaseTransferer.TransferTable).             *)
(*                                                                         *)
(* Databases are external; every call on them is a step whose outcome      *)
(* (success, error, returned rows) is drawn with \E.  A source table with  *)
(* n rows holds the rows 1..n, in a fixed order.                           *)
(*                                                                         *)
(* What the source holds is drawn where the program first acts on it: the  *)
(* number of tables at ExtractTables, the row count of a table at its      *)
(* first count or transfer in stage 2 (kept in srcCount from then on, the  *)
(* source is not modified during a run), the number of IndexDefs and       *)
(* ForeignKeyDefs of a table where the loops of stage 3 reach that table.  *)
(***************************************************************************)
EXTENDS Integers, Sequences, FiniteSets, TLC

\* ---------------------------------------------------------------- bounds
MaxTables == 2      \* tables in the source database
MaxObjects == 2     \* indexes, foreign keys, views and sequences in the source
MaxRunRows == 2     \* rows in the source database of an orchestrated run
MaxCols   == 1      \* columns reported by the zero-row probe
MaxRows   == 5      \* rows of the table handed to a direct TransferTable call
MaxBatch  == 3      \* batch size handed to a direct TransferTable call
MaxSortViews == 3   \* views handed to sortViewsByDependency
MaxDeps   == 2      \* names a view definition references

\* ------------------------------------------------------- program constants
DefaultBatchSize == 10000
TotalStages      == 6

Engines == {"mysql", "pgsql"}

\* engine names a configuration can carry: the prompt takes any string and
\* NormalizeEngine leaves an unknown one as it is; "sqlite" stands for every
\* engine the program does not support
ConfigEngines == Engines \cup {"sqlite"}

VARIABLES
  \* config.MigrationConfig
  dryRun, srcEngine, dstEngine,
  \* preflight.Run: position, PreflightResult fields, captured DatabaseInfo
  pfpc, Passed, Aborted, srcMajor, dstMajor, dstTableCount, dstViewCount,
  dstTotalSize, Checks, prompts,
  \* connections (PreflightResult.SourceConn/DestConn, Migrator.sourceConn/destConn)
  sourceConn, destConn,
  \* migrator.Run / Migrator
  pc, runRet, runErr, stageLog, tables, srcCount, views, sequences, i, pos,
  inner, totalRows,
  \* the destination database and the log of calls made on collaborators
  destData, calls,
  \* BaseTransferer.TransferTable activation
  tpc, tTable, batchSize, tDryRun, hasFn, columns, offset, RowsCopied,
  batch, tReads, tFetched, tInserts, progress, tRet, tErrMet, tEstimate,
  \* sortViewsByDependency activation: the argument, the locals, the result
  viewDefs, sorted, added, spc, scans, placedLast, sortRet,
  \* Connect activation (preflight.Connect or db.Connect): which of the two,
  \* position, the attempts made, the locals, the result
  cImpl, cpc, attempts, lastErr, dbNotExists, cRet,
  \* a direct call of one function: the function with its arguments, and what
  \* it returned
  fnCall, fnResult,
  \* the destination *sql.DB of a direct call that executes statements: the
  \* position of the caller, the objects its loop has left, the sessions the
  \* pool has opened (for each, whether foreign-key checks are enforced), the
  \* connection the pool holds idle, and the statements executed
  ppc, left, sessions, idleConn, execLog

cfgVars  == <<dryRun, srcEngine, dstEngine>>
pfVars   == <<pfpc, Passed, Aborted, srcMajor, dstMajor, dstTableCount, dstViewCount,
                 dstTotalSize,
              Checks, prompts>>
connVars == <<sourceConn, destConn>>
runVars  == <<pc, runRet, runErr, stageLog, tables, srcCount, views,
              sequences, i, pos, inner, totalRows>>
dbVars   == <<destData, calls>>
xferVars == <<tpc, tTable, batchSize, tDryRun, hasFn, columns, offset,
              RowsCopied, batch, tReads, tFetched, tInserts, progress, tRet,
              tErrMet, tEstimate>>
sortVars == <<viewDefs, sorted, added, spc, scans, placedLast, sortRet>>
dialVars == <<cImpl, cpc, attempts, lastErr, dbNotExists, cRet>>
poolVars == <<ppc, left, sessions, idleConn, execLog>>
callVars == <<fnCall, fnResult, poolVars>>
vars == <<cfgVars, pfVars, connVars, runVars, dbVars, xferVars, sortVars,
          dialVars, callVars>>

\* ---------------------------------------------------------------- helpers
Min(a, b) == IF a < b THEN a ELSE b

NoErr == [kind |-> "nil"]

\* one logged call: the operation, the object it was applied to, its outcome.
\* The log holds the calls on the extractor, the applier and the destination;
\* row counts read from the source are not logged
Call(op, arg, ok) == [op |-> op, arg |-> arg, ok |-> ok]

\* sql.DB.Close through the deferred closures of migrator.Run
Closed(c) == IF c = "nil" THEN "nil" ELSE "closed"

\* BaseTransferer.EstimateRows: COUNT(*) scanned into count; a failed query
\* leaves count at its zero value and returns the error
EstimateRows(ok, actual) == IF ok THEN [count |-> actual, err |-> FALSE]
                            ELSE [count |-> 0, err |-> TRUE]

\* TransferTable has not called EstimateRows
NoEstimate == [asked |-> FALSE]

\* "SELECT cols FROM t LIMIT limit OFFSET off" on a table holding rows 1..n
PageQuery(n, limit, off) ==
  IF off >= n THEN <<>>
  ELSE [j \in 1..Min(limit, n - off) |-> off + j]


\* ------------------------------------------------------------ preflight.Run
MaxMajor      == 1   \* parsed major versions range over 0..MaxMajor
MaxDestTables == 1   \* tables, and views, found in the destination before the run
MaxDestSize   == 1   \* bytes the destination reports as its total size

\* outcomes of preflight.Connect: a connection, the DatabaseNotExistsError
\* sentinel, or any other error
ConnectOutcomes == {"ok", "notexists", "err"}

\* Connect(cfg): "switch cfg.Engine", whose default case returns the error
\* "unsupported database engine" without connecting
Connect_AnyEngine(engine) == ConnectOutcomes

Connect(engine) == IF engine \in Engines THEN ConnectOutcomes ELSE {"err"}

\* schema.NewExtractor, schema.NewApplier, data.NewTransferer: "switch engine",
\* whose default case returns nil
NewExtractor(engine) ==
  CASE engine = "mysql" -> "MySQLExtractor"
    [] engine = "pgsql" -> "PostgresExtractor"
    [] OTHER -> "nil"

NewApplier(engine) ==
  CASE engine = "mysql" -> "MySQLApplier"
    [] engine = "pgsql" -> "PostgresApplier"
    [] OTHER -> "nil"

NewTransferer(engine) ==
  CASE engine = "mysql" -> "MySQLTransferer"
    [] engine = "pgsql" -> "PostgresTransferer"
    [] OTHER -> "nil"

PfReturn == pfpc' = "returned"

\* result.Checks = append(result.Checks, CheckResult{Name, Passed, Message});
\* of the message the model keeps what it reports: "" or the error kind
CheckResult(name, passed, msg) == [Name |-> name, Passed |-> passed, Message |-> msg]

AddCheck(name, passed, msg) == Checks' = Append(Checks, CheckResult(name, passed, msg))

\* errors.As(err, &dbNotExists) on the error of a failed Connect
IsNotExists_Never(out) == FALSE

IsNotExists(out) == out = "notexists"

\* "if !prompt.Confirm(...) { result.Aborted = true; return result, nil }"
Declined_Never(answer) == FALSE

Declined(answer) == ~answer

\* "if result.SourceInfo.MajorVersion != destInfo.MajorVersion"
VersionMismatch_Never(s, d) == FALSE

VersionMismatch(s, d) == s # d

\* "Create a mock destination info for dry run": the DatabaseInfo recorded
\* for a destination database that does not exist
MockDestInfo_OfSource(sourceMajor) ==
  [MajorVersion |-> sourceMajor, TableCount |-> MaxDestTables,
   ViewCount |-> 0, TotalSize |-> MaxDestSize]

MockDestInfo(sourceMajor) ==
  [MajorVersion |-> sourceMajor, TableCount |-> 0, ViewCount |-> 0,
   TotalSize |-> 0]

\* "if !cfg.DryRun { wipeDatabase(...) }" once the user agreed to the drop
MayWipe_Always(dry) == TRUE

MayWipe(dry) == ~dry

\* prompt.Confirm(q) answered by the user; at is the number of calls logged
\* when the question is asked
Confirm(q, answer) ==
  prompts' = Append(prompts, [q |-> q, answer |-> answer, at |-> Len(calls)])

\* 1. Connect to source; any error fails pre-flight
Preflight_ConnectSource ==
  /\ pc = "preflight" /\ pfpc = "connectSource"
  /\ \E out \in Connect(srcEngine) :
       IF out = "ok"
       THEN /\ sourceConn' = "open"
            /\ AddCheck("Source connection", TRUE, "")
            /\ pfpc' = "sourceInfo"
            /\ UNCHANGED Passed
       ELSE /\ AddCheck("Source connection", FALSE, out)
            /\ Passed' = FALSE
            /\ PfReturn
            /\ UNCHANGED sourceConn
  /\ UNCHANGED <<sortVars, dialVars, callVars, cfgVars, Aborted, srcMajor, dstMajor, dstTableCount, dstViewCount,
                 dstTotalSize,
                 prompts, destConn, runVars, dbVars, xferVars>>

\* getDatabaseInfo on the source
Preflight_SourceInfo ==
  /\ pc = "preflight" /\ pfpc = "sourceInfo"
  /\ \/ /\ Passed' = FALSE
        /\ PfReturn
        /\ UNCHANGED srcMajor
     \/ /\ \E v \in 0..MaxMajor : srcMajor' = v
        /\ pfpc' = "connectDest"
        /\ UNCHANGED Passed
  /\ UNCHANGED <<sortVars, dialVars, callVars, cfgVars, Aborted, dstMajor, dstTableCount, dstViewCount,
                 dstTotalSize, Checks,
                 prompts, connVars, runVars, dbVars, xferVars>>

\* 2. Connect to destination; a missing database is synthesized in dry-run
\* and otherwise leads to the "Create it?" prompt
Preflight_ConnectDest ==
  /\ pc = "preflight" /\ pfpc = "connectDest"
  /\ \E out \in Connect(dstEngine) :
       CASE out = "ok" ->
              /\ destConn' = "open"
              /\ AddCheck("Destination connection", TRUE, "")
              /\ pfpc' = "engineCheck"
              /\ UNCHANGED <<Passed, dstMajor, dstTableCount, dstViewCount, dstTotalSize>>
         [] IsNotExists(out) /\ dryRun ->
              /\ AddCheck("Destination connection", TRUE, "would create")
              /\ LET info == MockDestInfo(srcMajor)
                 IN /\ dstMajor' = info.MajorVersion
                    /\ dstTableCount' = info.TableCount
                    /\ dstViewCount' = info.ViewCount
                    /\ dstTotalSize' = info.TotalSize
              /\ PfReturn
              /\ UNCHANGED <<Passed, destConn>>
         [] IsNotExists(out) /\ ~dryRun ->
              /\ pfpc' = "confirmCreate"
              /\ UNCHANGED <<Passed, destConn, dstMajor, dstTableCount, dstViewCount,
                 dstTotalSize, Checks>>
         [] OTHER ->
              /\ AddCheck("Destination connection", FALSE, out)
              /\ Passed' = FALSE
              /\ PfReturn
              /\ UNCHANGED <<destConn, dstMajor, dstTableCount, dstViewCount, dstTotalSize>>
  /\ UNCHANGED <<sortVars, dialVars, callVars, cfgVars, Aborted, srcMajor, prompts, sourceConn,
                 runVars, dbVars, xferVars>>

\* prompt.Confirm("Create it?")
Preflight_ConfirmCreate ==
  /\ pc = "preflight" /\ pfpc = "confirmCreate"
  /\ \E answer \in BOOLEAN :
       /\ Confirm("Create it?", answer)
       /\ IF Declined(answer) THEN Aborted' = TRUE /\ PfReturn
          ELSE pfpc' = "createDatabase" /\ UNCHANGED Aborted
  /\ UNCHANGED <<sortVars, dialVars, callVars, cfgVars, Passed, srcMajor, dstMajor, dstTableCount, dstViewCount,
                 dstTotalSize,
                 Checks, connVars, runVars, dbVars, xferVars>>

\* CreateDatabase(cfg.Destination)
Preflight_CreateDatabase ==
  /\ pc = "preflight" /\ pfpc = "createDatabase"
  /\ \E ok \in BOOLEAN :
       /\ calls' = Append(calls, Call("CreateDatabase", 0, ok))
       /\ IF ok THEN pfpc' = "reconnect" /\ UNCHANGED Passed
          ELSE Passed' = FALSE /\ PfReturn
  /\ UNCHANGED <<sortVars, dialVars, callVars, cfgVars, Aborted, srcMajor, dstMajor, dstTableCount, dstViewCount,
                 dstTotalSize,
                 Checks, prompts, connVars, runVars, destData, xferVars>>

\* second Connect(cfg.Destination), after the database was created
Preflight_Reconnect ==
  /\ pc = "preflight" /\ pfpc = "reconnect"
  /\ \E out \in Connect(dstEngine) :
       IF out = "ok"
       THEN /\ destConn' = "open"
            /\ AddCheck("Destination connection", TRUE, "")
            /\ pfpc' = "engineCheck"
            /\ UNCHANGED Passed
       ELSE /\ AddCheck("Destination connection", FALSE, out)
            /\ Passed' = FALSE
            /\ PfReturn
            /\ UNCHANGED destConn
  /\ UNCHANGED <<sortVars, dialVars, callVars, cfgVars, Aborted, srcMajor, dstMajor, dstTableCount, dstViewCount,
                 dstTotalSize,
                 prompts, sourceConn, runVars, dbVars, xferVars>>

\* 3. Check engine matching
Preflight_EngineCheck ==
  /\ pc = "preflight" /\ pfpc = "engineCheck"
  /\ IF srcEngine # dstEngine
     THEN /\ AddCheck("Engine matching", FALSE, "mismatch")
          /\ Passed' = FALSE /\ PfReturn
     ELSE pfpc' = "destInfo" /\ UNCHANGED <<Passed, Checks>>
  /\ UNCHANGED <<sortVars, dialVars, callVars, cfgVars, Aborted, srcMajor, dstMajor, dstTableCount, dstViewCount,
                 dstTotalSize,
                 prompts, connVars, runVars, dbVars, xferVars>>

\* 4. getDatabaseInfo on the destination
Preflight_DestInfo ==
  /\ pc = "preflight" /\ pfpc = "destInfo"
  /\ \/ /\ Passed' = FALSE
        /\ PfReturn
        /\ UNCHANGED <<dstMajor, dstTableCount, dstViewCount, dstTotalSize>>
     \/ /\ \E v \in 0..MaxMajor : dstMajor' = v
        /\ \E n \in 0..MaxDestTables : dstTableCount' = n
        /\ \E n \in 0..MaxDestTables : dstViewCount' = n
        /\ \E n \in 0..MaxDestSize : dstTotalSize' = n
        /\ pfpc' = "versionCheck"
        /\ UNCHANGED Passed
  /\ UNCHANGED <<sortVars, dialVars, callVars, cfgVars, Aborted, srcMajor, Checks, prompts, connVars,
                 runVars, dbVars, xferVars>>

\* Version check: a mismatch asks "Continue anyway?"
Preflight_VersionCheck ==
  /\ pc = "preflight" /\ pfpc = "versionCheck"
  /\ IF VersionMismatch(srcMajor, dstMajor)
     THEN \E answer \in BOOLEAN :
            /\ Confirm("Continue anyway?", answer)
            /\ IF Declined(answer)
               THEN Aborted' = TRUE /\ PfReturn /\ UNCHANGED Checks
               ELSE /\ AddCheck("Version check", TRUE, "user confirmed")
                    /\ pfpc' = "emptyCheck" /\ UNCHANGED Aborted
     ELSE /\ AddCheck("Version check", TRUE, "")
          /\ pfpc' = "emptyCheck" /\ UNCHANGED <<Aborted, prompts>>
  /\ UNCHANGED <<sortVars, dialVars, callVars, cfgVars, Passed, srcMajor, dstMajor, dstTableCount, dstViewCount,
                 dstTotalSize,
                 connVars, runVars, dbVars, xferVars>>

\* 5. Check if destination is empty: a non-empty destination asks
\* "Drop all objects in destination and continue?"
Preflight_EmptyCheck ==
  /\ pc = "preflight" /\ pfpc = "emptyCheck"
  /\ IF dstTableCount > 0
     THEN \E answer \in BOOLEAN :
            /\ Confirm("Drop all objects in destination and continue?", answer)
            /\ IF Declined(answer) THEN Aborted' = TRUE /\ PfReturn
               ELSE /\ UNCHANGED Aborted
                    /\ IF MayWipe(dryRun) THEN pfpc' = "wipe" ELSE PfReturn
     ELSE UNCHANGED <<Aborted, prompts>> /\ PfReturn
  /\ UNCHANGED <<sortVars, dialVars, callVars, cfgVars, Passed, srcMajor, dstMajor, dstTableCount, dstViewCount,
                 dstTotalSize,
                 Checks, connVars, runVars, dbVars, xferVars>>

\* wipeDatabase(result.DestConn, cfg.Destination.Engine)
Preflight_Wipe ==
  /\ pc = "preflight" /\ pfpc = "wipe"
  /\ \E ok \in BOOLEAN :
       /\ calls' = Append(calls, Call("wipeDatabase", 0, ok))
       /\ Passed' = (IF ok THEN Passed ELSE FALSE)
  /\ PfReturn
  /\ UNCHANGED <<sortVars, dialVars, callVars, cfgVars, Aborted, srcMajor, dstMajor, dstTableCount, dstViewCount,
                 dstTotalSize,
                 Checks, prompts, connVars, runVars, destData, xferVars>>

Preflight ==
  \/ Preflight_ConnectSource \/ Preflight_SourceInfo \/ Preflight_ConnectDest
  \/ Preflight_ConfirmCreate \/ Preflight_CreateDatabase \/ Preflight_Reconnect
  \/ Preflight_EngineCheck \/ Preflight_DestInfo \/ Preflight_VersionCheck
  \/ Preflight_EmptyCheck \/ Preflight_Wipe

\* ------------------------------------------------------------ migrator.Run
\* return from Run before the Migrator exists: no deferred Close is registered
ReturnEarly ==
  /\ pc' = "done"
  /\ runRet' = "nil"
  /\ UNCHANGED <<runErr, stageLog, tables, srcCount, views, sequences, i, pos,
                 inner, totalRows, connVars>>

\* "4. Create migrator": the Migrator takes the two connections of the result
\* and nothing else of it; stage 1 starts
CreateMigrator ==
  /\ pc' = "migrateSchema"
  /\ UNCHANGED <<runRet, runErr, stageLog, tables, srcCount, views, sequences,
                 i, pos, inner, totalRows, connVars>>

Run_CheckPreflight_IgnoresAborted ==
  /\ pc = "preflight" /\ pfpc = "returned"
  /\ pfpc' = "consumed"
  /\ srcMajor' = 0 /\ dstMajor' = 0 /\ dstTableCount' = 0 /\ dstViewCount' = 0
  /\ dstTotalSize' = 0
  /\ Checks' = <<>> /\ prompts' = <<>>
  /\ IF ~Passed THEN ReturnEarly
     ELSE IF ~dryRun
          THEN /\ pc' = "confirm"
               /\ UNCHANGED <<runRet, runErr, stageLog, tables, srcCount, views,
                              sequences, i, pos, inner, totalRows, connVars>>
          ELSE CreateMigrator
  /\ UNCHANGED <<sortVars, dialVars, callVars, cfgVars, Passed, Aborted, dbVars, xferVars>>

\* Run, from the return of preflight.Run to the final confirmation.  Run reads
\* Aborted, Passed and the two connections of the result and never its
\* SourceInfo/DestInfo, which are dropped here
Run_CheckPreflight ==
  /\ pc = "preflight" /\ pfpc = "returned"
  /\ pfpc' = "consumed"
  /\ srcMajor' = 0 /\ dstMajor' = 0 /\ dstTableCount' = 0 /\ dstViewCount' = 0
  /\ dstTotalSize' = 0
  /\ Checks' = <<>> /\ prompts' = <<>>
  /\ IF Aborted THEN ReturnEarly
     ELSE IF ~Passed THEN ReturnEarly
     ELSE IF ~dryRun
          THEN /\ pc' = "confirm"
               /\ UNCHANGED <<runRet, runErr, stageLog, tables, srcCount, views,
                              sequences, i, pos, inner, totalRows, connVars>>
          ELSE CreateMigrator
  /\ UNCHANGED <<sortVars, dialVars, callVars, cfgVars, Passed, Aborted, dbVars, xferVars>>

\* "if !prompt.Confirm("Proceed with migration?") { ...; return nil }"
Cancelled_Never(answer) == FALSE

Cancelled(answer) == ~answer

\* 3. Ask for final confirmation (live mode only)
Run_Confirm ==
  /\ pc = "confirm"
  /\ \E answer \in BOOLEAN :
       /\ Confirm("Proceed with migration?", answer)
       /\ IF Cancelled(answer) THEN ReturnEarly ELSE CreateMigrator
  /\ UNCHANGED <<sortVars, dialVars, callVars, cfgVars, pfpc, Passed, Aborted,
                 srcMajor, dstMajor, dstTableCount, dstViewCount, dstTotalSize,
                 Checks, dbVars, xferVars>>

Finish_ErrorIgnored(err) ==
  /\ pc' = (IF err = NoErr THEN "done" ELSE pc)
  /\ runRet' = (IF err = NoErr THEN "nil" ELSE "err")
  /\ runErr' = err
  /\ sourceConn' = (IF err = NoErr THEN Closed(sourceConn) ELSE sourceConn)
  /\ destConn' = (IF err = NoErr THEN Closed(destConn) ELSE destConn)

\* return from runMigration (and so from Run, whose deferred closures close
\* both connections): err is NoErr for "return nil"
Finish(err) ==
  /\ pc' = "done"
  /\ runRet' = (IF err = NoErr THEN "nil" ELSE "err")
  /\ runErr' = err
  /\ sourceConn' = Closed(sourceConn)
  /\ destConn' = Closed(destConn)

\* runMigrate: os.Exit(1) when Run returns an error; otherwise the command
\* returns and the process exits with status 0
ExitCode == IF runRet = "err" THEN 1 ELSE 0

StageErr(kind, obj) == [kind |-> kind, obj |-> obj]

\* the state a TransferTable call starts in
StartTransfer(t, b, dry, fn) ==
  /\ tpc' = "getColumns"
  /\ tTable' = t /\ batchSize' = b /\ tDryRun' = dry /\ hasFn' = fn
  /\ columns' = 0 /\ offset' = 0 /\ RowsCopied' = 0 /\ batch' = <<>>
  /\ tReads' = 0 /\ tFetched' = <<>> /\ tInserts' = <<>> /\ progress' = <<>>
  /\ tRet' = "none" /\ tErrMet' = FALSE
  /\ tEstimate' = NoEstimate

\* ---- Stage 1: migrateSchema
\* where migrateSchema goes once n tables are extracted: dry-run lists them and
\* returns, live creates them
AfterExtractTables_IgnoresDryRun(n) ==
  IF n = 0 THEN "migrateData" ELSE "createTables"

AfterExtractTables(n) ==
  IF dryRun \/ n = 0 THEN "migrateData" ELSE "createTables"

\* ExtractTables, then the dry-run listing or the first CreateTable; the
\* extracted schema is the list of the source's tables, named 1..n
migrateSchema ==
  /\ pc = "migrateSchema"
  /\ stageLog' = Append(stageLog, 1)
  /\ \E ok \in BOOLEAN :
       /\ calls' = Append(calls, Call("ExtractTables", 0, ok))
       /\ IF ~ok
          THEN /\ Finish(StageErr("failed to extract schema", 0))
               /\ UNCHANGED <<tables, i>>
          ELSE /\ \E n \in 0..MaxTables :
                    /\ tables' = [k \in 1..n |-> k]
                    /\ pc' = AfterExtractTables(n)
               /\ i' = 1
               /\ UNCHANGED <<runRet, runErr, connVars>>
  /\ UNCHANGED <<sortVars, dialVars, callVars, cfgVars, pfVars, srcCount, views, sequences, pos, inner,
                 totalRows, destData, xferVars>>

\* one iteration of "for _, table := range tables { CreateTable }"
migrateSchema_CreateTable ==
  /\ pc = "createTables" /\ i <= Len(tables)
  /\ \E ok \in BOOLEAN :
       /\ calls' = Append(calls, Call("CreateTable", i, ok))
       /\ IF ~ok
          THEN /\ Finish(StageErr("CreateTable", i))
               /\ UNCHANGED <<i, destData>>
          ELSE /\ destData' = Append(destData, <<>>)
               /\ i' = i + 1
               /\ pc' = IF i = Len(tables) THEN "migrateData" ELSE "createTables"
               /\ UNCHANGED <<runRet, runErr, connVars>>
  /\ UNCHANGED <<sortVars, dialVars, callVars, cfgVars, pfVars, stageLog, tables, srcCount, views, sequences,
                 pos, inner, totalRows, xferVars>>

\* ---- Stage 2: migrateData
\* entry: dry-run goes to the estimate loop, live disables FK checks
migrateData ==
  /\ pc = "migrateData"
  /\ stageLog' = Append(stageLog, 2)
  /\ IF dryRun
     THEN /\ pc' = IF Len(tables) = 0 THEN "createIndexesAndConstraints"
                   ELSE "dryEstimate"
          /\ i' = 1
          /\ UNCHANGED <<runRet, runErr, connVars, calls>>
     ELSE \E ok \in BOOLEAN :
            /\ calls' = Append(calls, Call("DisableForeignKeyChecks", 0, ok))
            /\ IF ~ok
               THEN /\ Finish(StageErr("failed to disable FK checks", 0))
                    /\ UNCHANGED i
               ELSE /\ pc' = IF Len(tables) = 0
                             THEN "createIndexesAndConstraints"
                             ELSE "transferLoop"
                    /\ i' = 1
                    /\ UNCHANGED <<runRet, runErr, connVars>>
  /\ UNCHANGED <<sortVars, dialVars, callVars, cfgVars, pfVars, tables, srcCount, views, sequences, pos, inner,
                 totalRows, destData, xferVars>>

\* rows the tables not yet read can hold: the source database holds at most
\* MaxRunRows rows
RECURSIVE Sum(_)
Sum(q) == IF q = <<>> THEN 0 ELSE q[Len(q)] + Sum(SubSeq(q, 1, Len(q) - 1))

RowsLeft == MaxRunRows - Sum(srcCount)

\* dry-run: "rows, _ := EstimateRows(source, table)"; m.totalRows += rows.
\* The source table turns out to hold n rows
migrateData_DryEstimate ==
  /\ pc = "dryEstimate" /\ i <= Len(tables)
  /\ \E n \in 0..RowsLeft, ok \in BOOLEAN :
       /\ srcCount' = Append(srcCount, n)
       /\ totalRows' = totalRows + EstimateRows(ok, n).count
  /\ i' = i + 1
  /\ pc' = IF i = Len(tables) THEN "createIndexesAndConstraints"
           ELSE "dryEstimate"
  /\ UNCHANGED <<sortVars, dialVars, callVars, cfgVars, pfVars, connVars, runRet, runErr, stageLog, tables,
                 views, sequences, pos, inner, dbVars, xferVars>>

\* live: the progress estimate (error discarded), then the TransferTable call.
\* The source table turns out to hold n rows
migrateData_TransferTable ==
  /\ pc = "transferLoop" /\ i <= Len(tables)
  /\ \E n \in 0..RowsLeft, ok \in BOOLEAN :
       LET totalRowsEst == EstimateRows(ok, n)   \* used by ui only
       IN /\ srcCount' = Append(srcCount, n)
          /\ calls' = Append(calls, Call("TransferTable", i, TRUE))
  /\ StartTransfer(i, DefaultBatchSize, FALSE, TRUE)
  /\ pc' = "inTransfer"
  /\ UNCHANGED <<sortVars, dialVars, callVars, cfgVars, pfVars, connVars, runRet, runErr, stageLog, tables,
                 views, sequences, i, pos, inner, totalRows, destData>>

\* live: TransferTable returned; its stats are consumed and its frame is gone
migrateData_Returned ==
  /\ pc = "inTransfer" /\ tpc = "returned"
  /\ tpc' = "idle"
  /\ tTable' = 0 /\ batchSize' = DefaultBatchSize /\ tDryRun' = FALSE
  /\ hasFn' = FALSE /\ columns' = 0 /\ offset' = 0 /\ RowsCopied' = 0
  /\ batch' = <<>> /\ tReads' = 0 /\ tFetched' = <<>> /\ tInserts' = <<>>
  /\ progress' = <<>> /\ tRet' = "none" /\ tErrMet' = FALSE
  /\ tEstimate' = NoEstimate
  /\ calls' = Append(calls, Call("TransferTable returned", i, tRet = "ok"))
  /\ IF tRet # "ok"
     THEN /\ Finish(StageErr("TransferTable", i))
          /\ UNCHANGED <<i, totalRows>>
     ELSE /\ totalRows' = totalRows + RowsCopied
          /\ i' = i + 1
          /\ pc' = IF i = Len(tables) THEN "createIndexesAndConstraints"
                   ELSE "transferLoop"
          /\ UNCHANGED <<runRet, runErr, connVars>>
  /\ UNCHANGED <<sortVars, dialVars, callVars, cfgVars, pfVars, stageLog, tables, srcCount, views, sequences,
                 pos, inner, destData>>

\* ---- Stage 3: createIndexesAndConstraints
\* The stage runs two nested loops one after the other, "for table in m.tables
\* { for idx in table.Indexes }" and then the same over table.ForeignKeys.
\* i is the table, pos the position in its list (0: the inner range statement is
\* about to be evaluated), inner the length of that list.

\* indexes, foreign keys, views and sequences the part of the source schema
\* not yet read can hold: the source database holds at most MaxObjects of
\* them, and the indexes and foreign keys of the tables before i are created
\* by now
Created(op) == Cardinality({k \in 1..Len(calls) : calls[k].op = op})

ObjectsLeft ==
  MaxObjects - (Created("CreateIndex") + Created("CreateForeignKey")
                + views + sequences)

\* the inner loop of table i is over: the next table, or the loop is finished
\* and the stage goes on at pc value after
NextTable_PerTable(after) ==
  /\ pos' = 0 /\ inner' = 0
  /\ IF after = "createForeignKeys" THEN pc' = after /\ UNCHANGED i
     ELSE IF i < Len(tables) THEN i' = i + 1 /\ pc' = "createIndexes"
     ELSE i' = 1 /\ pc' = after

NextTable(after) ==
  /\ pos' = 0 /\ inner' = 0
  /\ IF i < Len(tables)
     THEN i' = i + 1 /\ UNCHANGED pc
     ELSE i' = 1 /\ pc' = after

\* entry: dry-run lists the counts and returns, live starts the index loop
createIndexesAndConstraints ==
  /\ pc = "createIndexesAndConstraints"
  /\ stageLog' = Append(stageLog, 3)
  /\ pc' = IF dryRun \/ Len(tables) = 0 THEN "createViews" ELSE "createIndexes"
  /\ i' = 1 /\ pos' = 0 /\ inner' = 0
  /\ UNCHANGED <<sortVars, dialVars, callVars, cfgVars, pfVars, connVars, runRet, runErr, tables, srcCount,
                 views, sequences, totalRows, dbVars, xferVars>>

\* one step of the index loops: the range over table i's Indexes (n of them),
\* or the CreateIndex call for its pos-th index
createIndexesAndConstraints_CreateIndex ==
  /\ pc = "createIndexes" /\ i <= Len(tables)
  /\ IF pos = 0
     THEN /\ \E n \in 0..ObjectsLeft :
               IF n = 0 THEN NextTable("createForeignKeys")
               ELSE inner' = n /\ pos' = 1 /\ UNCHANGED <<pc, i>>
          /\ UNCHANGED <<runRet, runErr, connVars, calls>>
     ELSE \E ok \in BOOLEAN :
            /\ calls' = Append(calls, Call("CreateIndex", <<i, pos>>, ok))
            /\ IF ~ok
               THEN /\ Finish(StageErr("CreateIndex", <<i, pos>>))
                    /\ UNCHANGED <<i, pos, inner>>
               ELSE /\ IF pos < inner
                       THEN pos' = pos + 1 /\ UNCHANGED <<pc, i, inner>>
                       ELSE NextTable("createForeignKeys")
                    /\ UNCHANGED <<runRet, runErr, connVars>>
  /\ UNCHANGED <<sortVars, dialVars, callVars, cfgVars, pfVars, stageLog, tables, srcCount, views, sequences,
                 totalRows, destData, xferVars>>

\* one step of the foreign key loops, entered when every index is created
createIndexesAndConstraints_CreateForeignKey ==
  /\ pc = "createForeignKeys" /\ i <= Len(tables)
  /\ IF pos = 0
     THEN /\ \E n \in 0..ObjectsLeft :
               IF n = 0 THEN NextTable("createViews")
               ELSE inner' = n /\ pos' = 1 /\ UNCHANGED <<pc, i>>
          /\ UNCHANGED <<runRet, runErr, connVars, calls>>
     ELSE \E ok \in BOOLEAN :
            /\ calls' = Append(calls, Call("CreateForeignKey", <<i, pos>>, ok))
            /\ IF ~ok
               THEN /\ Finish(StageErr("CreateForeignKey", <<i, pos>>))
                    /\ UNCHANGED <<i, pos, inner>>
               ELSE /\ IF pos < inner
                       THEN pos' = pos + 1 /\ UNCHANGED <<pc, i, inner>>
                       ELSE NextTable("createViews")
                    /\ UNCHANGED <<runRet, runErr, connVars>>
  /\ UNCHANGED <<sortVars, dialVars, callVars, cfgVars, pfVars, stageLog, tables, srcCount, views, sequences,
                 totalRows, destData, xferVars>>

\* ---- Stage 4: createViews
createViews ==
  /\ pc = "createViews"
  /\ stageLog' = Append(stageLog, 4)
  /\ \E ok \in BOOLEAN :
       /\ calls' = Append(calls, Call("ExtractViews", 0, ok))
       /\ IF ~ok
          THEN /\ Finish(StageErr("failed to extract views", 0))
               /\ UNCHANGED <<views, i>>
          ELSE /\ \E nv \in 0..ObjectsLeft :
                    /\ views' = nv
                    /\ pc' = IF nv = 0 \/ dryRun THEN "migrateSequences"
                             ELSE "createViewLoop"
               /\ i' = 1
               /\ UNCHANGED <<runRet, runErr, connVars>>
  /\ UNCHANGED <<sortVars, dialVars, callVars, cfgVars, pfVars, tables, srcCount, sequences, pos, inner,
                 totalRows, destData, xferVars>>

createViews_CreateView ==
  /\ pc = "createViewLoop" /\ i <= views
  /\ \E ok \in BOOLEAN :
       /\ calls' = Append(calls, Call("CreateView", i, ok))
       /\ IF ~ok
          THEN /\ Finish(StageErr("CreateView", i))
               /\ UNCHANGED i
          ELSE /\ i' = i + 1
               /\ pc' = IF i = views THEN "migrateSequences" ELSE "createViewLoop"
               /\ UNCHANGED <<runRet, runErr, connVars>>
  /\ UNCHANGED <<sortVars, dialVars, callVars, cfgVars, pfVars, stageLog, tables, srcCount, views, sequences,
                 pos, inner, totalRows, destData, xferVars>>

\* ---- Stage 5: migrateSequences
migrateSequences ==
  /\ pc = "migrateSequences"
  /\ stageLog' = Append(stageLog, 5)
  /\ IF srcEngine # "pgsql"
     THEN /\ pc' = "finalize"
          /\ UNCHANGED <<runRet, runErr, connVars, sequences, i, calls>>
     ELSE \E ok \in BOOLEAN :
            /\ calls' = Append(calls, Call("ExtractSequences", 0, ok))
            /\ IF ~ok
               THEN /\ Finish(StageErr("failed to extract sequences", 0))
                    /\ UNCHANGED <<sequences, i>>
               ELSE /\ \E ns \in 0..ObjectsLeft :
                         /\ sequences' = ns
                         /\ pc' = IF ns = 0 \/ dryRun THEN "finalize"
                                  ELSE "setSequences"
                    /\ i' = 1
                    /\ UNCHANGED <<runRet, runErr, connVars>>
  /\ UNCHANGED <<sortVars, dialVars, callVars, cfgVars, pfVars, tables, srcCount, views, pos, inner,
                 totalRows, destData, xferVars>>

migrateSequences_SetSequenceValue ==
  /\ pc = "setSequences" /\ i <= sequences
  /\ \E ok \in BOOLEAN :
       /\ calls' = Append(calls, Call("SetSequenceValue", i, ok))
       /\ IF ~ok
          THEN /\ Finish(StageErr("SetSequenceValue", i))
               /\ UNCHANGED i
          ELSE /\ i' = i + 1
               /\ pc' = IF i = sequences THEN "finalize" ELSE "setSequences"
               /\ UNCHANGED <<runRet, runErr, connVars>>
  /\ UNCHANGED <<sortVars, dialVars, callVars, cfgVars, pfVars, stageLog, tables, srcCount, views, sequences,
                 pos, inner, totalRows, destData, xferVars>>

\* ---- Stage 6: finalize
finalize_EnableSkipped ==
  /\ pc = "finalize"
  /\ stageLog' = Append(stageLog, 6)
  /\ IF dryRun
     THEN /\ Finish(NoErr)
          /\ UNCHANGED <<i, calls>>
     ELSE /\ UNCHANGED calls
          /\ i' = 1
          /\ IF Len(tables) = 0
             THEN Finish(NoErr)
             ELSE /\ pc' = "verify"
                  /\ UNCHANGED <<runRet, runErr, connVars>>
  /\ UNCHANGED <<sortVars, dialVars, callVars, cfgVars, pfVars, tables, srcCount, views, sequences, pos,
                 inner, totalRows, destData, xferVars>>

\* entry: dry-run returns at once, live re-enables FK checks
finalize ==
  /\ pc = "finalize"
  /\ stageLog' = Append(stageLog, 6)
  /\ IF dryRun
     THEN /\ Finish(NoErr)
          /\ UNCHANGED <<i, calls>>
     ELSE \E ok \in BOOLEAN :
            /\ calls' = Append(calls, Call("EnableForeignKeyChecks", 0, ok))
            /\ IF ~ok
               THEN /\ Finish(StageErr("failed to enable FK checks", 0))
                    /\ UNCHANGED i
               ELSE /\ i' = 1
                    /\ IF Len(tables) = 0
                       THEN Finish(NoErr)
                       ELSE /\ pc' = "verify"
                            /\ UNCHANGED <<runRet, runErr, connVars>>
  /\ UNCHANGED <<sortVars, dialVars, callVars, cfgVars, pfVars, tables, srcCount, views, sequences, pos,
                 inner, totalRows, destData, xferVars>>

\* one iteration of the row-count verification: both EstimateRows errors are
\* discarded, the counts are compared.  The logged call is the count query on
\* the destination (row counts read from the source are not logged)
finalize_Verify ==
  /\ pc = "verify" /\ i <= Len(tables)
  /\ \E okS \in BOOLEAN, okD \in BOOLEAN :
       LET sourceRows == EstimateRows(okS, srcCount[i]).count
           destRows   == EstimateRows(okD, Len(destData[i])).count
       IN /\ calls' = Append(calls, Call("EstimateRows(dest)", i, okD))
          /\ IF sourceRows # destRows
             THEN /\ Finish([kind |-> "row count mismatch", obj |-> i,
                             source |-> sourceRows, dest |-> destRows])
                  /\ UNCHANGED i
             ELSE /\ i' = i + 1
                  /\ IF i = Len(tables)
                     THEN Finish(NoErr)
                     ELSE UNCHANGED <<pc, runRet, runErr, connVars>>
  /\ UNCHANGED <<sortVars, dialVars, callVars, cfgVars, pfVars, stageLog, tables, srcCount, views, sequences,
                 pos, inner, totalRows, destData, xferVars>>

\* ------------------------------------------- BaseTransferer.TransferTable
TReturn(ret) == tpc' = "returned" /\ tRet' = ret

\* GetColumns (zero-row probe); an empty column list returns the empty stats
TransferTable_GetColumns ==
  /\ tpc = "getColumns"
  /\ \/ /\ tErrMet' = TRUE
        /\ TReturn("err")
        /\ UNCHANGED columns
     \/ \E c \in 0..MaxCols :
          /\ columns' = c
          /\ IF c = 0 THEN TReturn("ok")
             ELSE tpc' = "estimate" /\ UNCHANGED tRet
          /\ UNCHANGED tErrMet
  /\ UNCHANGED <<sortVars, dialVars, callVars, cfgVars, pfVars, connVars, runVars, dbVars, tTable, batchSize,
                 tDryRun, hasFn, offset, RowsCopied, batch, tReads, tFetched,
                 tInserts, progress, tEstimate>>

\* what "SELECT COUNT(*)" can return for a table whose page reads see n rows.
\* In a run of the orchestrator the source is not modified and the count is
\* n; around a direct call other sessions may insert and delete rows between
\* the count and the page reads, and the count is any number
CountResults(n) == IF pc = "direct" THEN 0..MaxRows ELSE {n}

\* the LIMIT of a page query: "LIMIT %d OFFSET %d" with batchSize and offset
PageLimit_UpToEstimate(size, totalRowsEst, off) ==
  Min(size, IF totalRowsEst > off THEN totalRowsEst - off ELSE 0)

PageLimit(size, totalRowsEst, off) == size

\* "if dryRun { stats.RowsCopied = totalRows; ...; return stats, nil }"
DryRunRowsCopied_Zero(totalRowsEst) == 0

DryRunRowsCopied(totalRowsEst) == totalRowsEst

\* EstimateRows on the source; dry-run reports the estimate and returns
TransferTable_EstimateRows ==
  /\ tpc = "estimate"
  /\ \E ok \in BOOLEAN, counted \in CountResults(srcCount[tTable]) :
       LET totalRowsEst == EstimateRows(ok, counted)
       IN /\ tEstimate' = [asked |-> TRUE, err |-> totalRowsEst.err,
                           count |-> totalRowsEst.count]
          /\ IF totalRowsEst.err
             THEN /\ tErrMet' = TRUE
                  /\ TReturn("err")
                  /\ UNCHANGED RowsCopied
             ELSE /\ UNCHANGED tErrMet
                  /\ IF tDryRun
                     THEN /\ RowsCopied' = DryRunRowsCopied(totalRowsEst.count)
                          /\ TReturn("ok")
                     ELSE tpc' = "read" /\ UNCHANGED <<RowsCopied, tRet>>
  /\ offset' = 0
  /\ UNCHANGED <<sortVars, dialVars, callVars, cfgVars, pfVars, connVars, runVars, dbVars, tTable, batchSize,
                 tDryRun, hasFn, columns, batch, tReads, tFetched, tInserts,
                 progress>>

\* "if int64(len(batch)) < int64(batchSize) { break }"
ShortBatch_Never(b, size) == FALSE

ShortBatch_OrFull(b, size) == Len(b) <= size

ShortBatch(b, size) == Len(b) < size

\* "if progressFn != nil { progressFn(stats.RowsCopied) }": the values the
\* callback has received, after a batch b brought the count to copied
ProgressFn_BatchLen(p, fn, copied, b) ==
  IF fn THEN Append(p, Len(b)) ELSE p

ProgressFn(p, fn, copied, b) ==
  IF fn THEN Append(p, copied) ELSE p

\* collectBatch returned b without an error: an empty batch ends the loop
Fetched(b) ==
  /\ batch' = b
  /\ tFetched' = Append(tFetched, Len(b))
  /\ IF Len(b) = 0 THEN TReturn("ok")
     ELSE tpc' = "insert" /\ UNCHANGED tRet

\* one page read: source.Query, then collectBatch over the returned rows.
\* collectBatch reports a Scan error; when rows.Next() stops on an iteration
\* error it returns the rows read so far and no error (rows.Err() is not read)
TransferTable_ReadBatch ==
  /\ tpc = "read"
  /\ tReads' = tReads + 1
  /\ LET page == PageQuery(srcCount[tTable],
                           PageLimit(batchSize, tEstimate.count, offset),
                           offset)
     IN \/ /\ tErrMet' = TRUE         \* source.Query fails
           /\ TReturn("err")
           /\ UNCHANGED <<batch, tFetched>>
        \/ /\ Len(page) > 0           \* rows.Scan fails
           /\ tErrMet' = TRUE
           /\ TReturn("err")
           /\ UNCHANGED <<batch, tFetched>>
        \/ /\ Fetched(page)           \* all rows of the page collected
           /\ UNCHANGED tErrMet
        \/ \E k \in 0..Len(page) :    \* rows.Next() fails after k rows
             /\ tErrMet' = TRUE
             /\ Fetched(SubSeq(page, 1, k))
  /\ UNCHANGED <<sortVars, dialVars, callVars, cfgVars, pfVars, connVars, runVars, dbVars, tTable, batchSize,
                 tDryRun, hasFn, columns, offset, RowsCopied, tInserts,
                 progress, tEstimate>>

\* InsertBatch of the fetched batch, the counters, the progress callback and
\* the short-batch test that ends the loop
TransferTable_InsertBatch ==
  /\ tpc = "insert"
  /\ \E ok \in BOOLEAN :
       /\ calls' = Append(calls, Call("InsertBatch", tTable, ok))
       /\ IF ~ok
          THEN /\ tErrMet' = TRUE
               /\ TReturn("err")
               /\ UNCHANGED <<destData, tInserts, RowsCopied, offset, progress>>
          ELSE /\ destData' = [destData EXCEPT ![tTable] = @ \o batch]
               /\ tInserts' = Append(tInserts, Len(batch))
               /\ RowsCopied' = RowsCopied + Len(batch)
               /\ offset' = offset + Len(batch)
               /\ progress' = ProgressFn(progress, hasFn, RowsCopied', batch)
               /\ IF ShortBatch(batch, batchSize) THEN TReturn("ok")
                  ELSE tpc' = "read" /\ UNCHANGED tRet
               /\ UNCHANGED tErrMet
  /\ UNCHANGED <<sortVars, dialVars, callVars, cfgVars, pfVars, connVars, runVars, tTable, batchSize,
                 tDryRun, hasFn, columns, batch, tReads, tFetched,
                 tEstimate>>

TransferTable ==
  \/ TransferTable_GetColumns \/ TransferTable_EstimateRows
  \/ TransferTable_ReadBatch \/ TransferTable_InsertBatch

\* ------------------------------------------------------------ specifications
\* no direct function call is made
NoCall == [fn |-> "none"]

NoResult == [returned |-> FALSE]

\* no statement was executed through a destination pool
PoolIdle ==
  /\ ppc = "idle" /\ left = 0 /\ sessions = <<>> /\ idleConn = 0
  /\ execLog = <<>>

CallIdle == fnCall = NoCall /\ fnResult = NoResult /\ PoolIdle

\* the program outside a migrate run: used by the specifications of direct
\* calls, where pre-flight and the orchestrator do not run
ProgramIdle ==
  /\ pfpc = "none" /\ Passed = TRUE /\ Aborted = FALSE
  /\ srcMajor = 0 /\ dstMajor = 0 /\ dstTableCount = 0 /\ dstViewCount = 0
  /\ dstTotalSize = 0
  /\ Checks = <<>> /\ prompts = <<>>
  /\ sourceConn = "nil" /\ destConn = "nil"
  /\ pc = "direct" /\ runRet = "none" /\ runErr = NoErr
  /\ stageLog = <<>> /\ tables = <<>> /\ srcCount = <<>>
  /\ views = 0 /\ sequences = 0 /\ i = 1 /\ pos = 0 /\ inner = 0
  /\ totalRows = 0
  /\ destData = <<>> /\ calls = <<>>

\* no Connect call is active
DialIdle ==
  /\ cImpl = "none" /\ cpc = "idle" /\ attempts = <<>> /\ lastErr = "nil"
  /\ dbNotExists = FALSE /\ cRet = [kind |-> "none", SSLMode |-> ""]

\* no sortViewsByDependency call is active
SortIdle ==
  /\ viewDefs = <<>> /\ sorted = <<>> /\ added = {} /\ spc = "idle"
  /\ scans = 0 /\ placedLast = 0 /\ sortRet = <<>>

TransferIdle ==
  /\ tpc = "idle"
  /\ tTable = 0 /\ batchSize = DefaultBatchSize /\ tDryRun = FALSE
  /\ hasFn = FALSE /\ columns = 0 /\ offset = 0 /\ RowsCopied = 0
  /\ batch = <<>> /\ tReads = 0 /\ tFetched = <<>> /\ tInserts = <<>>
  /\ progress = <<>> /\ tRet = "none" /\ tErrMet = FALSE
  /\ tEstimate = NoEstimate

\* the migrate command: Run(dryRun).  The configuration is any MigrationConfig
\* preflight.Run accepts; the interactive prompt of the command always gives
\* the destination the engine of the source
Init ==
  /\ dryRun \in BOOLEAN
  /\ srcEngine \in ConfigEngines /\ dstEngine \in ConfigEngines
  /\ pfpc = "connectSource" /\ Passed = TRUE /\ Aborted = FALSE
  /\ srcMajor = 0 /\ dstMajor = 0 /\ dstTableCount = 0 /\ dstViewCount = 0
  /\ dstTotalSize = 0
  /\ Checks = <<>> /\ prompts = <<>>
  /\ sourceConn = "nil" /\ destConn = "nil"
  /\ pc = "preflight" /\ runRet = "none" /\ runErr = NoErr
  /\ stageLog = <<>> /\ tables = <<>> /\ srcCount = <<>>
  /\ views = 0 /\ sequences = 0 /\ i = 1 /\ pos = 0 /\ inner = 0
  /\ totalRows = 0
  /\ destData = <<>> /\ calls = <<>>
  /\ TransferIdle
  /\ SortIdle
  /\ DialIdle
  /\ CallIdle

Stages ==
  \/ migrateSchema \/ migrateSchema_CreateTable
  \/ migrateData \/ migrateData_DryEstimate \/ migrateData_TransferTable
  \/ migrateData_Returned
  \/ createIndexesAndConstraints \/ createIndexesAndConstraints_CreateIndex
  \/ createIndexesAndConstraints_CreateForeignKey
  \/ createViews \/ createViews_CreateView
  \/ migrateSequences \/ migrateSequences_SetSequenceValue
  \/ finalize \/ finalize_Verify

Next == Preflight \/ Run_CheckPreflight \/ Run_Confirm \/ Stages \/ TransferTable

Spec == Init /\ [][Next]_vars

\* a direct call TransferTable(source, dest, table, batchSize, dryRun,
\* progressFn) on one table of n rows, as the package's tests make it
InitTransfer ==
  /\ srcEngine \in Engines /\ dstEngine = srcEngine
  /\ pfpc = "none" /\ Passed = TRUE /\ Aborted = FALSE
  /\ srcMajor = 0 /\ dstMajor = 0 /\ dstTableCount = 0 /\ dstViewCount = 0
  /\ dstTotalSize = 0
  /\ Checks = <<>> /\ prompts = <<>>
  /\ sourceConn = "open" /\ destConn = "open"
  /\ pc = "direct" /\ runRet = "none" /\ runErr = NoErr
  /\ stageLog = <<>> /\ tables = <<1>>
  /\ \E n \in 0..MaxRows : srcCount = <<n>>
  /\ views = 0 /\ sequences = 0 /\ i = 1 /\ pos = 0 /\ inner = 0
  /\ totalRows = 0
  /\ destData = << <<>> >> /\ calls = <<>>
  /\ tpc = "getColumns" /\ tTable = 1
  /\ batchSize \in 1..MaxBatch /\ tDryRun \in BOOLEAN /\ hasFn \in BOOLEAN
  /\ dryRun = tDryRun
  /\ columns = 0 /\ offset = 0 /\ RowsCopied = 0
  /\ batch = <<>> /\ tReads = 0 /\ tFetched = <<>> /\ tInserts = <<>>
  /\ progress = <<>> /\ tRet = "none" /\ tErrMet = FALSE
  /\ tEstimate = NoEstimate
  /\ SortIdle
  /\ DialIdle
  /\ CallIdle

NextTransfer ==
  \/ TransferTable_GetColumns \/ TransferTable_EstimateRows
  \/ TransferTable_ReadBatch \/ TransferTable_InsertBatch

SpecTransfer == InitTransfer /\ [][NextTransfer]_vars

\* ---------------------------------------------------- sortViewsByDependency
\* schema.ViewDef: a view's Name and the names its definition references
\* (Dependencies).  The views of one database have distinct names, here 1..n
\* in the order of the list; 0 names a table, which is never a view.
ViewDefs(n) ==
  LET DepSets == {e \in SUBSET (0..n) : Cardinality(e) <= MaxDeps}
  IN {[k \in 1..n |-> [Name |-> k, Dependencies |-> f[k]]] :
        f \in [1..n -> DepSets]}

\* "if viewSet[dep] && !added[dep] { canAdd = false }" over v.Dependencies
canAdd_IgnoresAdded(v, viewSet, add) == TRUE

canAdd(v, viewSet, add) ==
  \A dep \in v.Dependencies : ~(dep \in viewSet /\ dep \notin add)

\* one scan "for _, v := range views", from position k on
RECURSIVE ScanFrom(_, _, _, _)
ScanFrom(vs, k, srt, add) ==
  IF k > Len(vs) THEN [sorted |-> srt, added |-> add]
  ELSE LET v == vs[k]
           viewSet == {vs[m].Name : m \in 1..Len(vs)}
       IN IF v.Name \in add THEN ScanFrom(vs, k + 1, srt, add)
          ELSE IF canAdd(v, viewSet, add)
               THEN ScanFrom(vs, k + 1, Append(srt, v), add \cup {v.Name})
               ELSE ScanFrom(vs, k + 1, srt, add)

\* scans counted by the model; no input needs more than one scan per view
MaxScans == MaxSortViews + 2

\* one iteration of "for len(sorted) < len(views)": a full scan, then the
\* "if len(sorted) == 0 { return views }" test
sortViewsByDependency_Scan ==
  /\ spc = "loop" /\ Len(sorted) < Len(viewDefs)
  /\ scans < MaxScans
  /\ LET r == ScanFrom(viewDefs, 1, sorted, added)
     IN /\ sorted' = r.sorted
        /\ added' = r.added
        /\ placedLast' = Len(r.sorted) - Len(sorted)
        /\ IF Len(r.sorted) = 0
           THEN spc' = "returned" /\ sortRet' = viewDefs
           ELSE UNCHANGED <<spc, sortRet>>
  /\ scans' = scans + 1
  /\ UNCHANGED <<dialVars, callVars, cfgVars, pfVars, connVars, runVars, dbVars, xferVars,
                 viewDefs>>

\* the loop condition is false: "return sorted"
sortViewsByDependency_Return ==
  /\ spc = "loop" /\ ~(Len(sorted) < Len(viewDefs))
  /\ spc' = "returned"
  /\ sortRet' = sorted
  /\ UNCHANGED <<dialVars, callVars, cfgVars, pfVars, connVars, runVars, dbVars, xferVars,
                 viewDefs, sorted, added, scans, placedLast>>

\* a call sortViewsByDependency(views), as MySQLExtractor.ExtractViews makes
\* it on the views read from the source
InitSort ==
  /\ dryRun = FALSE /\ srcEngine = "mysql" /\ dstEngine = srcEngine
  /\ pfpc = "none" /\ Passed = TRUE /\ Aborted = FALSE
  /\ srcMajor = 0 /\ dstMajor = 0 /\ dstTableCount = 0 /\ dstViewCount = 0
  /\ dstTotalSize = 0
  /\ Checks = <<>> /\ prompts = <<>>
  /\ sourceConn = "open" /\ destConn = "open"
  /\ pc = "extractViews" /\ runRet = "none" /\ runErr = NoErr
  /\ stageLog = <<>> /\ tables = <<>> /\ srcCount = <<>>
  /\ views = 0 /\ sequences = 0 /\ i = 1 /\ pos = 0 /\ inner = 0
  /\ totalRows = 0
  /\ destData = <<>> /\ calls = <<>>
  /\ TransferIdle
  /\ \E n \in 0..MaxSortViews : viewDefs \in ViewDefs(n)
  /\ sorted = <<>> /\ added = {} /\ spc = "loop"
  /\ scans = 0 /\ placedLast = 0 /\ sortRet = <<>>
  /\ DialIdle
  /\ CallIdle

NextSort == sortViewsByDependency_Scan \/ sortViewsByDependency_Return

SpecSort == InitSort /\ [][NextSort]_vars

\* ------------------------------------------------------------------ Connect
\* preflight.Connect (connectMySQL, connectPostgres), db.Connect (the connect
\* function of the analyze command) and the connection createPostgresDatabase
\* opens to the server's "postgres" database.  One attempt is sql.Open followed
\* by db.Ping; its outcome is drawn: a connection, a failure of sql.Open, or a
\* failure of Ping (the database does not exist, an SSL negotiation failure,
\* another failure).
AttemptOutcomes == {"ok", "openErr", "notexists", "sslErr", "otherErr"}

sslModes_PreferFirst == <<"prefer", "require", "disable">>

sslModes == <<"require", "prefer", "disable">>

\* isDatabaseNotExistsError(err, engine) on a Ping error; only
\* preflight.Connect makes this test
isDatabaseNotExistsError(impl, out) ==
  impl = "preflight.Connect" /\ out = "notexists"

\* the result of a Connect call as preflight.Run sees it
CReturn(kind, mode) ==
  /\ cpc' = "returned"
  /\ cRet' = [kind |-> kind, SSLMode |-> mode]

\* connectMySQL / case "mysql": one attempt, no SSL mode
connectMySQL ==
  /\ cpc = "dial" /\ srcEngine = "mysql"
  /\ \E out \in AttemptOutcomes :
       /\ attempts' = Append(attempts, [mode |-> "", out |-> out])
       /\ IF out = "ok" THEN CReturn("ok", "") /\ UNCHANGED lastErr
          ELSE /\ lastErr' = out
               /\ IF out # "openErr" /\ isDatabaseNotExistsError(cImpl, out)
                  THEN CReturn("notexists", "")
                  ELSE CReturn("err", "")
  /\ UNCHANGED <<sortVars, callVars, cfgVars, pfVars, connVars, runVars, dbVars,
                 xferVars, cImpl, dbNotExists>>

\* connectPostgres / case "pgsql": one iteration of
\* "for _, sslMode := range sslModes"
connectPostgres ==
  /\ cpc = "dial" /\ srcEngine = "pgsql"
  /\ Len(attempts) < Len(sslModes)
  /\ LET sslMode == sslModes[Len(attempts) + 1]
         last == Len(attempts) + 1 = Len(sslModes)
     IN \E out \in AttemptOutcomes :
          /\ attempts' = Append(attempts, [mode |-> sslMode, out |-> out])
          /\ IF out = "ok"
             THEN CReturn("ok", sslMode) /\ UNCHANGED <<lastErr, dbNotExists>>
             ELSE /\ lastErr' = out
                  /\ UNCHANGED cRet
                  /\ IF out # "openErr" /\ isDatabaseNotExistsError(cImpl, out)
                     THEN dbNotExists' = TRUE /\ cpc' = "afterLoop"
                     ELSE /\ UNCHANGED dbNotExists
                          /\ cpc' = IF last THEN "afterLoop" ELSE "dial"
  /\ UNCHANGED <<sortVars, callVars, cfgVars, pfVars, connVars, runVars, dbVars,
                 xferVars, cImpl>>

\* after the loop: no mode connected
connectPostgres_Failed ==
  /\ cpc = "afterLoop"
  /\ IF dbNotExists THEN CReturn("notexists", "") ELSE CReturn("err", "")
  /\ UNCHANGED <<sortVars, callVars, cfgVars, pfVars, connVars, runVars, dbVars,
                 xferVars, cImpl, attempts, lastErr, dbNotExists>>

\* a call Connect(cfg) with cfg.Engine = srcEngine
InitConnect ==
  /\ dryRun = FALSE /\ srcEngine \in Engines /\ dstEngine = srcEngine
  /\ pfpc = "none" /\ Passed = TRUE /\ Aborted = FALSE
  /\ srcMajor = 0 /\ dstMajor = 0 /\ dstTableCount = 0 /\ dstViewCount = 0
  /\ dstTotalSize = 0
  /\ Checks = <<>> /\ prompts = <<>>
  /\ sourceConn = "nil" /\ destConn = "nil"
  /\ pc = "connect" /\ runRet = "none" /\ runErr = NoErr
  /\ stageLog = <<>> /\ tables = <<>> /\ srcCount = <<>>
  /\ views = 0 /\ sequences = 0 /\ i = 1 /\ pos = 0 /\ inner = 0
  /\ totalRows = 0
  /\ destData = <<>> /\ calls = <<>>
  /\ TransferIdle
  /\ SortIdle
  /\ cImpl \in {"preflight.Connect", "db.Connect", "createPostgresDatabase"}
  /\ cImpl = "createPostgresDatabase" => srcEngine = "pgsql"
  /\ cpc = "dial" /\ attempts = <<>> /\ lastErr = "nil"
  /\ dbNotExists = FALSE /\ cRet = [kind |-> "none", SSLMode |-> ""]
  /\ CallIdle

NextConnect == connectMySQL \/ connectPostgres \/ connectPostgres_Failed

SpecConnect == InitConnect /\ [][NextConnect]_vars

\* -------------------------------------------------------------- InsertBatch
MaxInsRows == 2     \* rows of the batch handed to InsertBatch
MaxInsCols == 2     \* columns of the table handed to InsertBatch
MaxValue   == 1     \* column values range over 0..MaxValue

\* Dialect.PlaceholderStyle
PlaceholderStyle(engine) ==
  IF engine = "pgsql" THEN "PlaceholderPositional" ELSE "PlaceholderQuestion"

\* Dialect.Placeholder(position): "?" or "$" followed by the position
Placeholder(engine, position) ==
  IF engine = "pgsql" THEN <<"$", position>> ELSE <<"?">>

\* "if t.Dialect.PlaceholderStyle() == dialect.PlaceholderPositional
\*  { argIndex++ }"
NextArgIndex_Stuck(engine, argIndex) == argIndex

NextArgIndex(engine, argIndex) ==
  IF PlaceholderStyle(engine) = "PlaceholderPositional" THEN argIndex + 1
  ELSE argIndex

\* the inner loop "for i := range rowPlaceholders": the placeholders of one
\* row and the argIndex the loop ends with
RECURSIVE RowPlaceholders(_, _, _, _)
RowPlaceholders(engine, numCols, argIndex, row) ==
  IF Len(row) = numCols THEN [row |-> row, argIndex |-> argIndex]
  ELSE RowPlaceholders(engine, numCols, NextArgIndex(engine, argIndex),
                       Append(row, Placeholder(engine, argIndex)))

\* the outer loop "for range batch": one parenthesised group per row
RECURSIVE AllPlaceholders(_, _, _, _, _)
AllPlaceholders(engine, numRows, numCols, argIndex, all) ==
  IF Len(all) = numRows THEN all
  ELSE LET r == RowPlaceholders(engine, numCols, argIndex, <<>>)
       IN AllPlaceholders(engine, numRows, numCols, r.argIndex,
                          Append(all, r.row))

\* "for _, row := range batch { args = append(args, row...) }"
RECURSIVE FlattenArgs(_)
FlattenArgs(b) == IF b = <<>> THEN <<>> ELSE Head(b) \o FlattenArgs(Tail(b))

\* the batches of numRows rows of numCols values
Batches(numRows, numCols) ==
  [1..numRows -> [1..numCols -> 0..MaxValue]]

\* BaseTransferer.InsertBatch(dest, table, columns, batch): an empty batch
\* returns nil without a statement; otherwise one INSERT is executed with the
\* placeholder groups as its VALUES list and the flattened rows as its
\* arguments, and its error is returned
InsertBatch ==
  /\ fnCall.fn = "InsertBatch" /\ ~fnResult.returned
  /\ IF Len(fnCall.batch) = 0
     THEN fnResult' = [returned |-> TRUE, exec |-> FALSE, err |-> FALSE]
     ELSE \E ok \in BOOLEAN :
            fnResult' =
              [returned |-> TRUE, exec |-> TRUE, err |-> ~ok,
               values |-> AllPlaceholders(srcEngine, Len(fnCall.batch),
                                          fnCall.columns, 1, <<>>),
               args |-> FlattenArgs(fnCall.batch)]
  /\ UNCHANGED <<cfgVars, pfVars, connVars, runVars, dbVars, xferVars,
                 sortVars, dialVars, fnCall, poolVars>>

\* a call InsertBatch(dest, table, columns, batch) on the transferer of engine
\* srcEngine
InitInsertBatch ==
  /\ dryRun = FALSE /\ srcEngine \in Engines /\ dstEngine = srcEngine
  /\ ProgramIdle /\ TransferIdle /\ SortIdle /\ DialIdle
  /\ \E numRows \in 0..MaxInsRows, numCols \in 1..MaxInsCols :
       \E b \in Batches(numRows, numCols) :
         fnCall = [fn |-> "InsertBatch", columns |-> numCols, batch |-> b]
  /\ fnResult = NoResult /\ PoolIdle

NextInsertBatch == InsertBatch

SpecInsertBatch == InitInsertBatch /\ [][NextInsertBatch]_vars

\* ------------------------------------------------- MySQLApplier.CreateTable
\* A create-table statement is a sequence of tokens: the punctuation "(", ")"
\* and ",", one blank " ", back-quoted names (written <t> for the name t),
\* and words (keywords, types).  It
\* has the shape SHOW CREATE TABLE prints: the column and key definitions, then
\* the foreign-key constraints, then the table options.
MaxItems  == 2      \* column and key definitions of a statement
MaxFKs    == 1      \* foreign-key constraints of a statement
MaxFkCols == 2      \* columns of a foreign key

QuotedNames == {"<t>", "<c>", "<fk>", "<u>"}

\* "(<c>,<c>,...)" with n names
ColumnList(n) ==
  <<"(">> \o [k \in 1..(2 * n - 1) |-> IF k % 2 = 1 THEN "<c>" ELSE ","]
          \o <<")">>

\* a column definition or a key definition
ItemKinds == {"column", "key"}

ItemText(kind) ==
  IF kind = "column" THEN <<"<c>", " ", "int">>
  ELSE <<"KEY", " ", "<c>", " ">> \o ColumnList(1)

\* the foreign keys a table can have
ForeignKeys ==
  [named : BOOLEAN, ncols : 1..MaxFkCols, onDelete : BOOLEAN,
   onUpdate : BOOLEAN]

ForeignKeyText(fk) ==
  (IF fk.named THEN <<"CONSTRAINT", " ", "<fk>", " ">> ELSE <<>>)
  \o <<"FOREIGN KEY", " ">> \o ColumnList(fk.ncols)
  \o <<" ", "REFERENCES", " ", "<u>", " ">> \o ColumnList(fk.ncols)
  \o (IF fk.onDelete THEN <<" ", "ON DELETE", " ", "CASCADE">> ELSE <<>>)
  \o (IF fk.onUpdate THEN <<" ", "ON UPDATE", " ", "CASCADE">> ELSE <<>>)

\* the parts of the body joined by ", "
RECURSIVE JoinItems(_)
JoinItems(texts) ==
  IF texts = <<>> THEN <<>>
  ELSE IF Len(texts) = 1 THEN texts[1]
  ELSE texts[1] \o <<",", " ">> \o JoinItems(Tail(texts))

\* TableSchema.CreateStmt of a table with these definitions
CreateStmt(items, fks, options) ==
  <<"CREATE TABLE", " ", "<t>", " ", "(">>
  \o JoinItems([k \in 1..Len(items) |-> ItemText(items[k])]
               \o [k \in 1..Len(fks) |-> ForeignKeyText(fks[k])])
  \o <<")">>
  \o (IF options THEN <<" ", "ENGINE=InnoDB">> ELSE <<>>)

\* "\s*" from position k: the position of the first token that is not blank
RECURSIVE SkipSpace(_, _)
SkipSpace(s, k) ==
  IF k <= Len(s) /\ s[k] = " " THEN SkipSpace(s, k + 1) ELSE k

\* "[^,)]+" from position k: the position after the longest run of tokens
\* holding neither "," nor ")"
RECURSIVE SkipClause(_, _)
SkipClause(s, k) ==
  IF k <= Len(s) /\ s[k] \notin {",", ")"} THEN SkipClause(s, k + 1) ELSE k

Is(s, k, tok) == k <= Len(s) /\ s[k] = tok

\* a match of re (named) or re2 (not named) that starts at position k: the
\* position after the match, or 0 when there is none.  The two optional
\* groups "(?:ON DELETE [^,)]+)?" and "(?:ON UPDATE [^,)]+)?" come after the
\* greedy "[^,)]+", which has taken every character up to the next "," or
\* ")", so they match the empty string
MatchForeignKey(s, k, named) ==
  LET a == IF Is(s, k, ",") THEN k + 1 ELSE k
      b == SkipSpace(s, a)
      c == SkipSpace(s, b + 1)
      d == SkipSpace(s, c + 1)
      \* position of "FOREIGN KEY", 0 when the prefix does not match
      f == IF ~named THEN b
           ELSE IF /\ Is(s, b, "CONSTRAINT") /\ c > b + 1
                   /\ c <= Len(s) /\ s[c] \in QuotedNames /\ d > c + 1
                THEN d ELSE 0
      e == SkipClause(s, f + 1)
  IN IF f > 0 /\ Is(s, f, "FOREIGN KEY") /\ e > f + 1 THEN e ELSE 0

\* re.ReplaceAllString(s, ""): the leftmost matches are cut out, left to right
RECURSIVE ReplaceAllString(_, _, _)
ReplaceAllString(s, k, named) ==
  IF k > Len(s) THEN <<>>
  ELSE LET e == MatchForeignKey(s, k, named)
       IN IF e > 0 THEN ReplaceAllString(s, e, named)
          ELSE <<s[k]>> \o ReplaceAllString(s, k + 1, named)

removeForeignKeysFromCreateTable(createStmt) ==
  ReplaceAllString(ReplaceAllString(createStmt, 1, TRUE), 1, FALSE)

\* MySQLApplier.CreateTable(db, table): the statement executed, and the error
\* of db.Exec
MySQLApplier_CreateTable ==
  /\ fnCall.fn = "CreateTable" /\ ~fnResult.returned
  /\ \E ok \in BOOLEAN :
       fnResult' =
         [returned |-> TRUE, err |-> ~ok,
          executed |-> removeForeignKeysFromCreateTable(fnCall.CreateStmt)]
  /\ UNCHANGED <<cfgVars, pfVars, connVars, runVars, dbVars, xferVars,
                 sortVars, dialVars, fnCall, poolVars>>

SeqsUpTo(S, n) == UNION {[1..k -> S] : k \in 0..n}

\* a call CreateTable(db, table) on the MySQL applier
InitCreateTable ==
  /\ dryRun = FALSE /\ srcEngine = "mysql" /\ dstEngine = srcEngine
  /\ ProgramIdle /\ TransferIdle /\ SortIdle /\ DialIdle
  /\ \E items \in SeqsUpTo(ItemKinds, MaxItems) \ {<<>>},
        fks \in SeqsUpTo(ForeignKeys, MaxFKs), options \in BOOLEAN :
       fnCall = [fn |-> "CreateTable", items |-> items, fks |-> fks,
                 options |-> options,
                 CreateStmt |-> CreateStmt(items, fks, options)]
  /\ fnResult = NoResult /\ PoolIdle

NextCreateTable == MySQLApplier_CreateTable

SpecCreateTable == InitCreateTable /\ [][NextCreateTable]_vars

\* ------------------------------------------- Dialect.Quote{Identifier,Literal}
\* A string is a sequence of characters; "bq" is the back quote, "dq" the
\* double quote, "sq" the single quote and "a" any other character.
MaxStrLen == 3      \* characters of a string handed to a quoting function

Chars == {"bq", "dq", "sq", "a"}

Strings == UNION {[1..n -> Chars] : n \in 0..MaxStrLen}

\* the replacement of one delimiter: "``", `""`, "''"
Doubled_Single(d) == <<d>>

Doubled(d) == <<d, d>>

\* strings.ReplaceAll(s, old, new) for a one-character old
RECURSIVE ReplaceAll(_, _, _)
ReplaceAll(s, old, new) ==
  IF s = <<>> THEN <<>>
  ELSE (IF Head(s) = old THEN new ELSE <<Head(s)>>)
       \o ReplaceAll(Tail(s), old, new)

\* MySQLDialect.QuoteIdentifier, PostgresDialect.QuoteIdentifier
QuoteIdentifier(engine, name) ==
  LET d == IF engine = "mysql" THEN "bq" ELSE "dq"
  IN <<d>> \o ReplaceAll(name, d, Doubled(d)) \o <<d>>

\* MySQLDialect.QuoteLiteral, PostgresDialect.QuoteLiteral
QuoteLiteral(engine, value) ==
  <<"sq">> \o ReplaceAll(value, "sq", Doubled("sq")) \o <<"sq">>

Dialect_QuoteIdentifier ==
  /\ fnCall.fn = "QuoteIdentifier" /\ ~fnResult.returned
  /\ fnResult' = [returned |-> TRUE,
                  out |-> QuoteIdentifier(srcEngine, fnCall.s)]
  /\ UNCHANGED <<cfgVars, pfVars, connVars, runVars, dbVars, xferVars,
                 sortVars, dialVars, fnCall, poolVars>>

Dialect_QuoteLiteral ==
  /\ fnCall.fn = "QuoteLiteral" /\ ~fnResult.returned
  /\ fnResult' = [returned |-> TRUE,
                  out |-> QuoteLiteral(srcEngine, fnCall.s)]
  /\ UNCHANGED <<cfgVars, pfVars, connVars, runVars, dbVars, xferVars,
                 sortVars, dialVars, fnCall, poolVars>>

\* a call of one of the two functions on the dialect of engine srcEngine
InitQuote ==
  /\ dryRun = FALSE /\ srcEngine \in Engines /\ dstEngine = srcEngine
  /\ ProgramIdle /\ TransferIdle /\ SortIdle /\ DialIdle
  /\ \E f \in {"QuoteIdentifier", "QuoteLiteral"}, str \in Strings :
       fnCall = [fn |-> f, s |-> str]
  /\ fnResult = NoResult /\ PoolIdle

NextQuote == Dialect_QuoteIdentifier \/ Dialect_QuoteLiteral

SpecQuote == InitQuote /\ [][NextQuote]_vars

\* ------------------------------------------------- statements on a *sql.DB
\* The destination handle is a *sql.DB, a pool of connections: db.Exec and
\* db.Query run their statement on a connection the pool picks, the idle one,
\* or a new one when none is idle or the idle one turns out to be closed.
\* A new connection is a new session with the server's defaults, foreign-key
\* checks enforced.
MaxSessions    == 2   \* connections the pool opens during one call
MaxWipeObjects == 1   \* names a catalog query of wipeDatabase returns

\* Dialect.DisableFKChecksSQL / EnableFKChecksSQL
DisableFKChecksSQL(engine) ==
  IF engine = "mysql" THEN "SET FOREIGN_KEY_CHECKS = 0"
  ELSE "SET session_replication_role = replica"

EnableFKChecksSQL(engine) ==
  IF engine = "mysql" THEN "SET FOREIGN_KEY_CHECKS = 1"
  ELSE "SET session_replication_role = DEFAULT"

\* the connections a statement can run on
PoolPicks ==
  (IF idleConn > 0 THEN {idleConn} ELSE {})
  \cup (IF Len(sessions) < MaxSessions THEN {Len(sessions) + 1} ELSE {})

\* the sessions once the pool has picked connection s
Opened(s) == IF s > Len(sessions) THEN Append(sessions, TRUE) ELSE sessions

\* the setting of session s after stmt ran in it: the two SET statements are
\* session-scoped, a failed statement changes nothing
AfterStmt(engine, stmt, ok, enforced) ==
  IF ~ok THEN enforced
  ELSE IF stmt = DisableFKChecksSQL(engine) THEN FALSE
  ELSE IF stmt = EnableFKChecksSQL(engine) THEN TRUE
  ELSE enforced

\* db.Exec(stmt) or db.Query(stmt) on connection s with outcome ok; the
\* connection goes back to the pool.  The log keeps whether foreign-key
\* checks were enforced in the session when the statement ran
Exec(engine, stmt, s, ok) ==
  /\ sessions' = [Opened(s) EXCEPT ![s] = AfterStmt(engine, stmt, ok, @)]
  /\ idleConn' = s
  /\ execLog' = Append(execLog, [stmt |-> stmt, session |-> s, ok |-> ok,
                                 enforced |-> Opened(s)[s]])

\* ------------------------------------------------------------ wipeDatabase
WReturn(err) ==
  /\ ppc' = "returned"
  /\ fnResult' = [returned |-> TRUE, err |-> err]

\* the phases of wipeDatabase after the drops of one kind of object
AfterDrops(engine, kind) ==
  CASE kind = "TABLE" -> "query VIEW"
    [] kind = "VIEW" -> IF engine = "mysql" THEN "enableFK"
                        ELSE "query SEQUENCE"
    [] OTHER -> "return"

Goto(engine, phase) ==
  IF phase = "return" THEN WReturn(FALSE)
  ELSE ppc' = phase /\ UNCHANGED fnResult

KindOf(phase) ==
  CASE phase \in {"query TABLE", "drop TABLE"} -> "TABLE"
    [] phase \in {"query VIEW", "drop VIEW"} -> "VIEW"
    [] OTHER -> "SEQUENCE"

\* the catalog query and the DROP statement for one kind of object
CatalogQuery(kind) ==
  CASE kind = "TABLE" -> "SELECT table names"
    [] kind = "VIEW" -> "SELECT view names"
    [] OTHER -> "SELECT sequence names"

DropStmt(kind) ==
  CASE kind = "TABLE" -> "DROP TABLE IF EXISTS"
    [] kind = "VIEW" -> "DROP VIEW IF EXISTS"
    [] OTHER -> "DROP SEQUENCE IF EXISTS"

\* case "mysql": db.Exec("SET FOREIGN_KEY_CHECKS = 0")
wipeDatabase_DisableFK ==
  /\ fnCall.fn = "wipeDatabase" /\ ppc = "disableFK"
  /\ \E s \in PoolPicks, ok \in BOOLEAN :
       /\ Exec(dstEngine, "SET FOREIGN_KEY_CHECKS = 0", s, ok)
       /\ IF ok THEN Goto(dstEngine, "query TABLE") ELSE WReturn(TRUE)
  /\ UNCHANGED <<cfgVars, pfVars, connVars, runVars, dbVars, xferVars,
                 sortVars, dialVars, fnCall, left>>

\* a catalog query (tables, views, sequences) and the loop over its rows: the
\* query fails, a Scan fails, or n names are collected (rows.Err() is not
\* read, so an iteration error only shortens the list)
wipeDatabase_Query ==
  /\ fnCall.fn = "wipeDatabase"
  /\ ppc \in {"query TABLE", "query VIEW", "query SEQUENCE"}
  /\ LET kind == KindOf(ppc)
     IN \E s \in PoolPicks :
          \/ /\ Exec(dstEngine, CatalogQuery(kind), s, FALSE)
             /\ WReturn(TRUE)
             /\ UNCHANGED left
          \/ /\ Exec(dstEngine, CatalogQuery(kind), s, TRUE)
             /\ \/ WReturn(TRUE) /\ UNCHANGED left        \* rows.Scan fails
                \/ \E n \in 0..MaxWipeObjects :
                     /\ left' = n
                     /\ IF n = 0 THEN Goto(dstEngine, AfterDrops(dstEngine, kind))
                        ELSE Goto(dstEngine, IF kind = "TABLE" THEN "drop TABLE"
                                             ELSE IF kind = "VIEW" THEN "drop VIEW"
                                             ELSE "drop SEQUENCE")
  /\ UNCHANGED <<cfgVars, pfVars, connVars, runVars, dbVars, xferVars,
                 sortVars, dialVars, fnCall>>

\* one iteration of a drop loop: db.Exec("DROP ... IF EXISTS name")
wipeDatabase_Drop ==
  /\ fnCall.fn = "wipeDatabase"
  /\ ppc \in {"drop TABLE", "drop VIEW", "drop SEQUENCE"} /\ left > 0
  /\ LET kind == KindOf(ppc)
     IN \E s \in PoolPicks, ok \in BOOLEAN :
          /\ Exec(dstEngine, DropStmt(kind), s, ok)
          /\ IF ~ok THEN WReturn(TRUE) /\ UNCHANGED left
             ELSE /\ left' = left - 1
                  /\ IF left = 1 THEN Goto(dstEngine, AfterDrops(dstEngine, kind))
                     ELSE UNCHANGED <<ppc, fnResult>>
  /\ UNCHANGED <<cfgVars, pfVars, connVars, runVars, dbVars, xferVars,
                 sortVars, dialVars, fnCall>>

\* case "mysql": db.Exec("SET FOREIGN_KEY_CHECKS = 1"), then "return nil"
wipeDatabase_EnableFK ==
  /\ fnCall.fn = "wipeDatabase" /\ ppc = "enableFK"
  /\ \E s \in PoolPicks, ok \in BOOLEAN :
       /\ Exec(dstEngine, "SET FOREIGN_KEY_CHECKS = 1", s, ok)
       /\ WReturn(~ok)
  /\ UNCHANGED <<cfgVars, pfVars, connVars, runVars, dbVars, xferVars,
                 sortVars, dialVars, fnCall, left>>

\* a call wipeDatabase(db, engine) on the open destination; the pool may hold
\* an idle connection from the earlier steps of pre-flight
InitWipe ==
  /\ dryRun = FALSE /\ srcEngine \in Engines /\ dstEngine = srcEngine
  /\ ProgramIdle /\ TransferIdle /\ SortIdle /\ DialIdle
  /\ fnCall = [fn |-> "wipeDatabase", engine |-> dstEngine]
  /\ fnResult = NoResult
  /\ ppc = (IF dstEngine = "mysql" THEN "disableFK" ELSE "query TABLE")
  /\ left = 0 /\ execLog = <<>>
  /\ sessions = <<TRUE>> /\ idleConn = 1

NextWipe ==
  \/ wipeDatabase_DisableFK \/ wipeDatabase_Query \/ wipeDatabase_Drop
  \/ wipeDatabase_EnableFK

SpecWipe == InitWipe /\ [][NextWipe]_vars

\* ------------------------------- the foreign-key bracket on the destination
\* The statements migrateData and finalize execute on m.destConn around the
\* data: DisableForeignKeyChecks, one InsertBatch per fetched batch, then
\* EnableForeignKeyChecks.  Each is one dest.Exec on the pool.
MaxExecBatches == 3   \* batches inserted between the two SET statements

FReturn(err) ==
  /\ ppc' = "returned"
  /\ fnResult' = [returned |-> TRUE, err |-> err]

\* BaseTransferer.DisableForeignKeyChecks: dest.Exec(DisableFKChecksSQL())
BaseTransferer_DisableForeignKeyChecks ==
  /\ fnCall.fn = "dataStage" /\ ppc = "disable"
  /\ \E s \in PoolPicks, ok \in BOOLEAN :
       /\ Exec(dstEngine, DisableFKChecksSQL(dstEngine), s, ok)
       /\ IF ~ok THEN FReturn(TRUE)
          ELSE /\ ppc' = (IF left = 0 THEN "enable" ELSE "insert")
               /\ UNCHANGED fnResult
  /\ UNCHANGED <<cfgVars, pfVars, connVars, runVars, dbVars, xferVars,
                 sortVars, dialVars, fnCall, left>>

\* BaseTransferer.InsertBatch: dest.Exec(query, args...)
BaseTransferer_InsertBatch ==
  /\ fnCall.fn = "dataStage" /\ ppc = "insert" /\ left > 0
  /\ \E s \in PoolPicks, ok \in BOOLEAN :
       /\ Exec(dstEngine, "INSERT INTO", s, ok)
       /\ IF ~ok THEN FReturn(TRUE) /\ UNCHANGED left
          ELSE /\ left' = left - 1
               /\ ppc' = (IF left = 1 THEN "enable" ELSE "insert")
               /\ UNCHANGED fnResult
  /\ UNCHANGED <<cfgVars, pfVars, connVars, runVars, dbVars, xferVars,
                 sortVars, dialVars, fnCall>>

\* BaseTransferer.EnableForeignKeyChecks: dest.Exec(EnableFKChecksSQL())
BaseTransferer_EnableForeignKeyChecks ==
  /\ fnCall.fn = "dataStage" /\ ppc = "enable"
  /\ \E s \in PoolPicks, ok \in BOOLEAN :
       /\ Exec(dstEngine, EnableFKChecksSQL(dstEngine), s, ok)
       /\ FReturn(~ok)
  /\ UNCHANGED <<cfgVars, pfVars, connVars, runVars, dbVars, xferVars,
                 sortVars, dialVars, fnCall, left>>

\* the data stage of a live run that inserts n batches; the pool holds the
\* connection pre-flight and stage 1 have used
InitSession ==
  /\ dryRun = FALSE /\ srcEngine \in Engines /\ dstEngine = srcEngine
  /\ ProgramIdle /\ TransferIdle /\ SortIdle /\ DialIdle
  /\ \E n \in 0..MaxExecBatches :
       /\ fnCall = [fn |-> "dataStage", batches |-> n]
       /\ left = n
  /\ fnResult = NoResult
  /\ ppc = "disable" /\ execLog = <<>>
  /\ sessions = <<TRUE>> /\ idleConn = 1

NextSession ==
  \/ BaseTransferer_DisableForeignKeyChecks \/ BaseTransferer_InsertBatch
  \/ BaseTransferer_EnableForeignKeyChecks

SpecSession == InitSession /\ [][NextSession]_vars

\* --------------------- TransferTable: BaseTransferer and its predecessors
\* BaseTransferer.TransferTable (parametrized by the dialect) and the
\* per-engine MySQLTransferer.TransferTable and PostgresTransferer.TransferTable
\* it replaced, run side by side on the same arguments and against the same
\* answers of the two databases.  An activation of either is a frame: its
\* position, the locals columns, offset, batch and stats.RowsCopied, the
\* calls it has made (each database call with its SQL text and arguments,
\* each progress callback) and the error it returned.  SQL text is a sequence
\* of tokens; a quoted name is spelled out character by character.
MaxEqRows  == 3     \* rows of the source table
MaxEqBatch == 2     \* batch size
MaxEqCols  == 2     \* columns of the source table

\* table and column names: plain ones, one with a back quote, one with a
\* double quote
Names == {<<"a">>, <<"a", "b">>, <<"a", "bq">>, <<"dq", "a">>}

\* name of the j-th column of a table whose columns are named after col
ColumnName(col, j) == Append(col, IF j = 1 THEN "x" ELSE "y")

StartFrame ==
  [pc |-> "getColumns", columns |-> <<>>, offset |-> 0, RowsCopied |-> 0,
   batch |-> <<>>, trace |-> <<>>, err |-> "none"]

Traced(op, sql, args) == [op |-> op, sql |-> sql, args |-> args]

\* "return stats, nil" / "return nil, fmt.Errorf(...)"
Returned(f, err) == [f EXCEPT !.pc = "returned", !.err = err]

\* the rows of a batch as InsertBatch receives them: row r holds one value
\* per column
RowValues(b, numCols) ==
  [r \in 1..Len(b) |-> [c \in 1..numCols |-> <<b[r], c>>]]

\* the batch collected from a page: all of it, or its first k rows when
\* rows.Next() stops on an iteration error
Collected(page, o) ==
  IF o.kind = "iterErr" THEN SubSeq(page, 1, Min(o.k, Len(page))) ELSE page

\* ---- BaseTransferer (part_004)
BaseColList(engine, cols) ==
  JoinItems([j \in 1..Len(cols) |-> QuoteIdentifier(engine, cols[j])])

BaseSelect(engine, table, cols, size, off) ==
  <<"SELECT", " ">> \o BaseColList(engine, cols) \o <<" ", "FROM", " ">>
  \o QuoteIdentifier(engine, table)
  \o <<" ", "LIMIT", " ", size, " ", "OFFSET", " ", off>>

BaseInsert(engine, table, cols, numRows) ==
  <<"INSERT INTO", " ">> \o QuoteIdentifier(engine, table) \o <<" ", "(">>
  \o BaseColList(engine, cols) \o <<")", " ", "VALUES", " ">>
  \o JoinItems([r \in 1..numRows |->
                  <<"(">> \o JoinItems(AllPlaceholders(engine, numRows,
                                                     Len(cols), 1, <<>>)[r])
                  \o <<")">>])

\* one step of BaseTransferer.TransferTable: the database call at f.pc with
\* the answer o
BaseStep(f, a, o) ==
  LET engine == a.engine
      T == a.table
  IN CASE f.pc = "getColumns" ->
            LET g == [f EXCEPT !.trace = Append(@, Traced("Query",
                        <<"SELECT * FROM", " ">> \o QuoteIdentifier(engine, T)
                        \o <<" ", "LIMIT 0">>, <<>>))]
            IN IF ~o.ok THEN Returned(g, "failed to get columns")
               ELSE IF o.k = 0 THEN Returned(g, "nil")
               ELSE [g EXCEPT !.columns = [j \in 1..o.k |-> ColumnName(a.col, j)],
                              !.pc = "estimate"]
       [] f.pc = "estimate" ->
            LET g == [f EXCEPT !.trace = Append(@, Traced("QueryRow",
                        <<"SELECT COUNT(*) FROM", " ">>
                        \o QuoteIdentifier(engine, T), <<>>))]
                totalRowsEst == EstimateRows(o.ok, a.rows)
            IN IF totalRowsEst.err THEN Returned(g, "failed to estimate rows")
               ELSE IF a.dryRun
                    THEN Returned([g EXCEPT !.RowsCopied =
                                     DryRunRowsCopied(totalRowsEst.count)], "nil")
               ELSE [g EXCEPT !.pc = "read"]
       [] f.pc = "read" ->
            LET limit == PageLimit(a.batchSize, a.rows, f.offset)
                g == [f EXCEPT !.trace = Append(@, Traced("Query",
                        BaseSelect(engine, T, f.columns, limit, f.offset),
                        <<>>))]
                page == PageQuery(a.rows, limit, f.offset)
                b == Collected(page, o)
            IN IF o.kind = "queryErr"
               THEN Returned(g, "failed to read from source")
               ELSE IF o.kind = "scanErr" /\ Len(page) > 0
                    THEN Returned(g, "failed to scan row")
               ELSE IF Len(b) = 0 THEN Returned([g EXCEPT !.batch = b], "nil")
               ELSE [g EXCEPT !.batch = b, !.pc = "insert"]
       [] f.pc = "insert" ->
            LET g == [f EXCEPT !.trace = Append(@, Traced("Exec",
                        BaseInsert(engine, T, f.columns, Len(f.batch)),
                        FlattenArgs(RowValues(f.batch, Len(f.columns)))))]
            IN IF ~o.ok THEN Returned(g, "failed to insert batch")
               ELSE LET copied == f.RowsCopied + Len(f.batch)
                        h == [g EXCEPT
                                !.RowsCopied = copied,
                                !.offset = @ + Len(f.batch),
                                !.trace =
                                  IF a.hasFn
                                  THEN Append(@, Traced("progressFn", <<>>,
                                         <<ProgressFn(<<>>, TRUE, copied,
                                                      f.batch)[1]>>))
                                  ELSE @]
                    IN IF ShortBatch(f.batch, a.batchSize)
                       THEN Returned(h, "nil")
                       ELSE [h EXCEPT !.pc = "read"]
       [] OTHER -> f

\* ---- MySQLTransferer (part_002) and PostgresTransferer (data/postgres.go)
\* "`" + col + "`" in MySQLTransferer; quoteIdentifier(name), which doubles
\* every double quote, in PostgresTransferer
LegacyQuote(engine, name) ==
  IF engine = "mysql" THEN <<"bq">> \o name \o <<"bq">>
  ELSE <<"dq">> \o ReplaceAll(name, "dq", <<"dq", "dq">>) \o <<"dq">>

LegacyColList(engine, cols) ==
  JoinItems([j \in 1..Len(cols) |-> LegacyQuote(engine, cols[j])])

\* insertBatch: MySQLTransferer repeats one group of "?" per row;
\* PostgresTransferer numbers the placeholders $1, $2, ... across the rows
LegacyGroup(engine, r, numCols) ==
  IF engine = "mysql" THEN [c \in 1..numCols |-> <<"?">>]
  ELSE [c \in 1..numCols |-> <<"$", (r - 1) * numCols + c>>]

LegacyInsert(engine, table, cols, numRows) ==
  <<"INSERT INTO", " ">> \o LegacyQuote(engine, table) \o <<" ", "(">>
  \o LegacyColList(engine, cols) \o <<")", " ", "VALUES", " ">>
  \o JoinItems([r \in 1..numRows |->
                  <<"(">> \o JoinItems(LegacyGroup(engine, r, Len(cols)))
                  \o <<")">>])

\* one step of MySQLTransferer.TransferTable / PostgresTransferer.TransferTable
LegacyStep(f, a, o) ==
  LET engine == a.engine
      T == a.table
  IN CASE f.pc = "getColumns" ->
            LET g == [f EXCEPT !.trace = Append(@, Traced("Query",
                        <<"SELECT * FROM", " ">> \o LegacyQuote(engine, T)
                        \o <<" ", "LIMIT 0">>, <<>>))]
            IN IF ~o.ok THEN Returned(g, "failed to get columns")
               ELSE IF o.k = 0 THEN Returned(g, "nil")
               ELSE [g EXCEPT !.columns = [j \in 1..o.k |-> ColumnName(a.col, j)],
                              !.pc = "estimate"]
       [] f.pc = "estimate" ->
            LET g == [f EXCEPT !.trace = Append(@, Traced("QueryRow",
                        <<"SELECT COUNT(*) FROM", " ">>
                        \o LegacyQuote(engine, T), <<>>))]
            IN IF ~o.ok THEN Returned(g, "failed to estimate rows")
               ELSE IF a.dryRun
                    THEN Returned([g EXCEPT !.RowsCopied = a.rows], "nil")
               ELSE [g EXCEPT !.pc = "read"]
       [] f.pc = "read" ->
            LET g == [f EXCEPT !.trace = Append(@, Traced("Query",
                        <<"SELECT", " ">> \o LegacyColList(engine, f.columns)
                        \o <<" ", "FROM", " ">> \o LegacyQuote(engine, T)
                        \o <<" ", "LIMIT", " ", a.batchSize, " ", "OFFSET",
                             " ", f.offset>>, <<>>))]
                page == PageQuery(a.rows, a.batchSize, f.offset)
                b == Collected(page, o)
            IN IF o.kind = "queryErr"
               THEN Returned(g, "failed to read from source")
               ELSE IF o.kind = "scanErr" /\ Len(page) > 0
                    THEN Returned(g, "failed to scan row")
               ELSE IF Len(b) = 0 THEN Returned([g EXCEPT !.batch = b], "nil")
               ELSE [g EXCEPT !.batch = b, !.pc = "insert"]
       [] f.pc = "insert" ->
            LET g == [f EXCEPT !.trace = Append(@, Traced("Exec",
                        LegacyInsert(engine, T, f.columns, Len(f.batch)),
                        FlattenArgs(RowValues(f.batch, Len(f.columns)))))]
            IN IF ~o.ok THEN Returned(g, "failed to insert batch")
               ELSE LET copied == f.RowsCopied + Len(f.batch)
                        h == [g EXCEPT
                                !.RowsCopied = copied,
                                !.offset = @ + Len(f.batch),
                                !.trace =
                                  IF a.hasFn
                                  THEN Append(@, Traced("progressFn", <<>>,
                                                        <<copied>>))
                                  ELSE @]
                    IN IF Len(f.batch) < a.batchSize
                       THEN Returned(h, "nil")
                       ELSE [h EXCEPT !.pc = "read"]
       [] OTHER -> f

\* the answers the databases can give to the call at position p
Answers(p) ==
  CASE p = "getColumns" ->
         [ok : BOOLEAN, kind : {"columns"}, k : 0..MaxEqCols]
    [] p = "read" ->
         [ok : {TRUE}, kind : {"queryErr", "scanErr", "rows"}, k : {0}]
         \cup [ok : {TRUE}, kind : {"iterErr"}, k : 0..MaxEqBatch]
    [] OTHER -> [ok : BOOLEAN, kind : {"result"}, k : {0}]

\* both implementations make their next call and get the same answer
TransferTable_SideBySide ==
  /\ fnCall.fn = "TransferTable" /\ ~fnResult.returned
  /\ \E o \in Answers(fnResult.base.pc) :
       LET b == BaseStep(fnResult.base, fnCall, o)
           l == LegacyStep(fnResult.legacy, fnCall, o)
       IN fnResult' = [returned |-> b.pc = "returned" /\ l.pc = "returned",
                       base |-> b, legacy |-> l]
  /\ UNCHANGED <<cfgVars, pfVars, connVars, runVars, dbVars, xferVars,
                 sortVars, dialVars, fnCall, poolVars>>

\* a call TransferTable(source, dest, table, batchSize, dryRun, progressFn) on
\* the transferers of engine srcEngine
InitSideBySide ==
  /\ srcEngine \in Engines /\ dstEngine = srcEngine
  /\ dryRun \in BOOLEAN
  /\ ProgramIdle /\ TransferIdle /\ SortIdle /\ DialIdle /\ PoolIdle
  /\ \E t \in Names, c \in Names, n \in 0..MaxEqRows, size \in 1..MaxEqBatch,
        fn \in BOOLEAN :
       fnCall = [fn |-> "TransferTable", engine |-> srcEngine, table |-> t,
                 col |-> c, rows |-> n, batchSize |-> size, dryRun |-> dryRun,
                 hasFn |-> fn]
  /\ fnResult = [returned |-> FALSE, base |-> StartFrame,
                 legacy |-> StartFrame]

NextSideBySide == TransferTable_SideBySide

SpecSideBySide == InitSideBySide /\ [][NextSideBySide]_vars

\* ==================================================================== claims
Count(S) == Cardinality(S)

CallIdx(ops) == {k \in 1..Len(calls) : calls[k].op \in ops}

\* calls the six stages make on the destination
StageDestOps ==
  {"CreateTable", "CreateIndex", "CreateForeignKey", "CreateView",
   "SetSequenceValue", "TransferTable", "TransferTable returned", "InsertBatch",
   "DisableForeignKeyChecks", "EnableForeignKeyChecks", "EstimateRows(dest)"}

\* calls whose error a stage function returns to runMigration
StageOps ==
  {"ExtractTables", "CreateTable", "DisableForeignKeyChecks",
   "TransferTable returned", "CreateIndex", "CreateForeignKey", "ExtractViews",
   "CreateView", "ExtractSequences", "SetSequenceValue",
   "EnableForeignKeyChecks"}

\* calls pre-flight makes that modify the destination server
PreflightOps == {"CreateDatabase", "wipeDatabase"}

\* every call the log can hold
LoggedOps == StageOps \cup StageDestOps \cup PreflightOps

\* calls the six stages make
StageCallOps == StageOps \cup StageDestOps

LiveSuccess ==
  pc = "done" /\ runRet = "nil" /\ ~dryRun /\ stageLog = <<1, 2, 3, 4, 5, 6>>

\* C1: in dry-run mode no stage makes any call on the destination (no
\* CreateTable, CreateIndex, CreateForeignKey, CreateView, SetSequenceValue,
\* TransferTable, InsertBatch, Disable/EnableForeignKeyChecks, no row count
\* read), whatever the number of tables, rows, indexes, foreign keys, views
\* and sequences, and the destination holds no data of the run.
C1_DryRunNoDestinationCall ==
  dryRun => /\ CallIdx(StageDestOps) = {}
            /\ destData = <<>>
            /\ tpc = "idle"

C1_Witness ==
  /\ dryRun /\ pc = "done" /\ runRet = "nil"
  /\ stageLog = <<1, 2, 3, 4, 5, 6>>
  /\ Len(tables) = MaxTables
  /\ Len(srcCount) = MaxTables
  /\ views >= 1 /\ sequences >= 1 /\ totalRows >= 1

\* C2: in a successful live run DisableForeignKeyChecks is called exactly
\* once, before the first TransferTable call and the first insert, and
\* EnableForeignKeyChecks exactly once, after the last transfer and after
\* every call of stages 1 to 5; only the row-count reads of finalize follow it.
C2_FkBracketOnce ==
  LiveSuccess =>
    /\ Count(CallIdx({"DisableForeignKeyChecks"})) = 1
    /\ Count(CallIdx({"EnableForeignKeyChecks"})) = 1
    /\ \A d \in CallIdx({"DisableForeignKeyChecks"}),
          t \in CallIdx({"TransferTable", "InsertBatch", "TransferTable returned"}) :
          d < t
    /\ \A e \in CallIdx({"EnableForeignKeyChecks"}), k \in 1..Len(calls) :
          /\ (calls[k].op # "EstimateRows(dest)" /\ k # e) => k < e
          /\ calls[k].op = "EstimateRows(dest)" => e < k

C2_Witness ==
  /\ LiveSuccess
  /\ Count(CallIdx({"TransferTable"})) = 2
  /\ Count(CallIdx({"InsertBatch"})) = 2

C4_StagesOnlyAfterPassed ==
  /\ (stageLog # <<>> \/ CallIdx(StageOps \cup StageDestOps) # {}
        \/ pc \notin {"preflight", "done"})
       => (pfpc = "consumed" /\ Passed /\ ~Aborted)
  /\ (pfpc = "consumed" /\ (~Passed \/ Aborted))
       => (pc = "done" /\ stageLog = <<>>)

C4_Witness ==
  /\ pfpc = "consumed" /\ Passed /\ Aborted
  /\ pc = "done" /\ stageLog = <<>>
  /\ CallIdx({"CreateDatabase"}) # {}

\* ---- claims about one TransferTable call (SpecTransfer)
CeilDiv(n, b) == (n + b - 1) \div b

\* a live TransferTable call that returned success and met no error
LiveCleanReturn ==
  tpc = "returned" /\ tRet = "ok" /\ ~tDryRun /\ ~tErrMet

\* C5 as stated: a live TransferTable on a table of n rows that meets no
\* error issues exactly ceil(n/b) page reads, or one read when n = 0.
C5_CeilReads ==
  LiveCleanReturn =>
    tReads = (IF srcCount[tTable] = 0 THEN 1
              ELSE CeilDiv(srcCount[tTable], batchSize))

\* C5 amended: a live TransferTable that meets no error issues exactly
\* floor(n/b) + 1 page reads on a table with a non-empty column list (the
\* read that finds the short or empty final page included), and no page read
\* on a table with an empty column list.
C5_FloorPlusOneReads ==
  LiveCleanReturn =>
    tReads = (IF columns = 0 THEN 0
              ELSE (srcCount[tTable] \div batchSize) + 1)

C5_Witness ==
  /\ LiveCleanReturn /\ columns > 0
  /\ srcCount[tTable] = 2 * batchSize /\ batchSize >= 2
  /\ tReads = 3 /\ tFetched = <<batchSize, batchSize, 0>>

\* C6 as stated: a live TransferTable on a table of n rows that meets no
\* error inserts n rows in total and returns RowsCopied = n.
C6_CopiesAllRows ==
  LiveCleanReturn =>
    /\ RowsCopied = srcCount[tTable]
    /\ Sum(tInserts) = srcCount[tTable]
    /\ Len(destData[tTable]) = srcCount[tTable]

\* C6 amended: the same for a table with a non-empty column list, every batch
\* but the last holding b rows; a table with an empty column list gets no
\* insert and RowsCopied = 0.
C6_CopiesAllRowsOfTablesWithColumns ==
  LiveCleanReturn =>
    IF columns = 0
    THEN RowsCopied = 0 /\ tInserts = <<>> /\ destData[tTable] = <<>>
    ELSE /\ RowsCopied = srcCount[tTable]
         /\ Sum(tInserts) = srcCount[tTable]
         /\ Len(destData[tTable]) = srcCount[tTable]
         /\ \A k \in 1..Len(tInserts) - 1 : tInserts[k] = batchSize

C6_Witness ==
  /\ LiveCleanReturn
  /\ srcCount[tTable] = 3 /\ batchSize = 2
  /\ tInserts = <<2, 1>> /\ RowsCopied = 3

\* C7: the progress callback is invoked exactly once per successfully inserted
\* batch, every such batch is non-empty, a failed insert and an empty batch
\* bring no call, and the k-th value passed is the number of rows copied by
\* the first k batches, so the values strictly increase; without a callback
\* nothing is reported.
C7_ProgressPerBatch ==
  /\ ~tDryRun =>
       /\ Len(tInserts) = Count({k \in CallIdx({"InsertBatch"}) : calls[k].ok})
       /\ \A k \in 1..Len(tInserts) : tInserts[k] > 0
       /\ Len(progress) = (IF hasFn THEN Len(tInserts) ELSE 0)
       /\ \A k \in 1..Len(progress) : progress[k] = Sum(SubSeq(tInserts, 1, k))
       /\ \A k \in 1..Len(progress) - 1 : progress[k] < progress[k + 1]
  /\ tDryRun => progress = <<>>

C7_Witness ==
  /\ hasFn /\ tpc = "returned" /\ tRet = "err"
  /\ Len(progress) = 2 /\ progress[2] = 2 * batchSize
  /\ \E k \in CallIdx({"InsertBatch"}) : ~calls[k].ok

\* C8: a fetched batch that is empty or shorter than the batch size is the
\* last batch fetched: no page read follows it, the only insert that can
\* follow is the insert of that very batch when it is not empty, and once
\* that is done the call has returned.
C8_ShortBatchEndsTransfer ==
  /\ Len(tInserts) <= Len(tFetched)
  /\ \A k \in 1..Len(tInserts) : tInserts[k] = tFetched[k]
  /\ \A k \in 1..Len(tFetched) :
       tFetched[k] < batchSize =>
         /\ k = Len(tFetched)
         /\ tFetched[k] = 0 => (Len(tInserts) = k - 1 /\ tpc = "returned")
         /\ Len(tInserts) = k => tpc = "returned"
  /\ tReads \in {Len(tFetched), Len(tFetched) + 1}
  /\ tReads = Len(tFetched) + 1 => (tpc = "returned" /\ tRet = "err")

C8_Witness ==
  /\ tpc = "returned" /\ tRet = "ok"
  /\ Len(tFetched) = 2 /\ tFetched[2] > 0 /\ tFetched[2] < batchSize
  /\ tInserts = tFetched /\ tReads = 2

\* C9 as stated: once a page read (the query or the fetching of its rows) or
\* an insert has met an error, TransferTable has returned an error: nothing
\* more is read or inserted and success is not reported.
C9_ErrorAbortsTransfer ==
  tErrMet => (tpc = "returned" /\ tRet = "err")

\* ---- finalize (Spec)
\* C10 as stated: a live run succeeds only if every migrated table has the
\* same number of rows on both sides, and a row-count-mismatch error names a
\* table together with its source and destination row counts.
C10_SuccessMeansCountsMatch ==
  /\ LiveSuccess =>
       \A t \in 1..Len(tables) : srcCount[t] = Len(destData[t])
  /\ runErr.kind = "row count mismatch" =>
       /\ runErr.obj \in 1..Len(tables)
       /\ runErr.source = srcCount[runErr.obj]
       /\ runErr.dest = Len(destData[runErr.obj])

\* ---- sortViewsByDependency (C11..C13)
\* the views of the list that view k references
ViewDeps(vs, k) == vs[k].Dependencies \cap {vs[m].Name : m \in 1..Len(vs)}

\* the views reachable from the set S in at most m more reference steps
RECURSIVE ReachFrom(_, _, _)
ReachFrom(vs, S, m) ==
  IF m = 0 THEN S
  ELSE ReachFrom(vs, S \cup UNION {ViewDeps(vs, k) : k \in S}, m - 1)

\* some view references itself, directly or through other views
HasCycle(vs) ==
  \E k \in 1..Len(vs) : k \in ReachFrom(vs, ViewDeps(vs, k), Len(vs))

\* a scan placed nothing and the loop goes on: the next scan starts from the
\* same sorted and added, and so does every scan after it
Diverged == spc = "loop" /\ scans >= 1 /\ placedLast = 0

\* C11: for a list of views with distinct names and an acyclic view-to-view
\* dependency graph the call returns, after at most one scan per view, a list
\* that holds every input view exactly once and every view after each view
\* of the list it depends on; dependencies that are no view of the list do not
\* matter.
C11_AcyclicTopologicalOrder ==
  (spc # "idle" /\ ~HasCycle(viewDefs)) =>
    /\ ~Diverged
    /\ scans <= Len(viewDefs)
    /\ spc = "returned" =>
         /\ Len(sortRet) = Len(viewDefs)
         /\ {sortRet[k] : k \in 1..Len(sortRet)}
              = {viewDefs[k] : k \in 1..Len(viewDefs)}
         /\ \A p \in 1..Len(sortRet), q \in 1..Len(sortRet) :
              sortRet[q].Name \in sortRet[p].Dependencies => q < p

C11_Witness ==
  /\ spc = "returned" /\ ~HasCycle(viewDefs)
  /\ Len(viewDefs) = 3 /\ scans = 3
  /\ sortRet # viewDefs
  /\ \E k \in 1..3 : 0 \in viewDefs[k].Dependencies
                     /\ ViewDeps(viewDefs, k) # {}

\* C12: for a list that holds a self-referential view or a cycle of views the
\* call returns, and what it returns is the input list in its input order.
C12_CycleReturnsInput ==
  (spc # "idle" /\ HasCycle(viewDefs)) =>
    /\ ~Diverged
    /\ spc = "returned" => sortRet = viewDefs

\* C13: the call terminates on every list: once a scan has placed no view,
\* no further scan is made (the call has returned), and so no call makes
\* more scans than there are views plus one.
C13_ScanningStops ==
  /\ (scans >= 1 /\ placedLast = 0) => spc = "returned"
  /\ scans <= Len(viewDefs) + 1

\* ---- pre-flight verdicts (C14..C18)
PfDone == pfpc = "returned"

Asked(q, answer) == \E k \in 1..Len(prompts) :
                      prompts[k].q = q /\ prompts[k].answer = answer

PreflightQuestions ==
  {"Create it?", "Continue anyway?",
   "Drop all objects in destination and continue?"}

\* C16: a declined pre-flight confirmation ("Create it?", "Continue anyway?",
\* "Drop all objects in destination and continue?") is the last thing
\* pre-flight does: it has returned, the result is aborted and not failed,
\* and no call was made since the question; an aborted run never starts a
\* stage or makes a stage call.
C16_DeclineAborts ==
  /\ \A k \in 1..Len(prompts) :
       (prompts[k].q \in PreflightQuestions /\ ~prompts[k].answer) =>
         /\ k = Len(prompts)
         /\ PfDone /\ Aborted /\ Passed
         /\ Len(calls) = prompts[k].at
  /\ (Aborted /\ PfDone) => (prompts # <<>> /\ ~prompts[Len(prompts)].answer)
  /\ Aborted => /\ pfpc \in {"returned", "consumed"} /\ Passed
                /\ stageLog = <<>>
                /\ CallIdx(StageOps \cup StageDestOps) = {}

C16_Witness ==
  /\ PfDone /\ Aborted
  /\ Asked("Continue anyway?", TRUE)
  /\ Asked("Drop all objects in destination and continue?", FALSE)
  /\ dstTableCount > 0

\* C17: a major-version mismatch never fails pre-flight by itself: the version
\* check is recorded as passed, "Continue anyway?" is asked exactly when the
\* major versions differ, pre-flight goes on to the remaining checks when the
\* user confirms and returns aborted (not failed) when the user declines.
C17_VersionMismatchIsWarning ==
  /\ \A k \in 1..Len(prompts) :
       prompts[k].q = "Continue anyway?" => srcMajor # dstMajor
  /\ \A k \in 1..Len(Checks) :
       Checks[k].Name = "Version check" =>
         /\ Checks[k].Passed
         /\ (Checks[k].Message = "user confirmed") = (srcMajor # dstMajor)
  /\ pfpc \in {"emptyCheck", "wipe"} =>
       /\ Passed /\ ~Aborted
       /\ Asked("Continue anyway?", TRUE) = (srcMajor # dstMajor)
  /\ Asked("Continue anyway?", FALSE) => (PfDone /\ Aborted /\ Passed)

C17_Witness ==
  /\ pfpc = "emptyCheck" /\ srcMajor # dstMajor
  /\ Asked("Continue anyway?", TRUE) /\ Passed

C19_SslModesInOrder ==
  /\ Len(attempts) <= 3
  /\ srcEngine = "pgsql" =>
       \A k \in 1..Len(attempts) :
         attempts[k].mode = <<"require", "prefer", "disable">>[k]
  /\ srcEngine = "mysql" => Len(attempts) <= 1
  /\ \A k \in 1..Len(attempts) :
       attempts[k].out = "ok" =>
         /\ k = Len(attempts)
         /\ cpc = "returned"
         /\ cRet = [kind |-> "ok", SSLMode |-> attempts[k].mode]
  /\ (cpc = "returned" /\ cRet.kind = "ok") =>
       attempts[Len(attempts)].out = "ok"
  /\ (cpc = "returned" /\ cImpl = "preflight.Connect") =>
       cRet.kind \in ConnectOutcomes

C19_Witness ==
  /\ cpc = "returned" /\ srcEngine = "pgsql"
  /\ Len(attempts) = 3
  /\ attempts[1].out = "sslErr" /\ attempts[2].out = "sslErr"
  /\ cRet = [kind |-> "ok", SSLMode |-> "disable"]

\* ---- exit status (C20)
\* C20: when the migrate command ends, its exit status is 0 exactly when the
\* run met no fatal error: pre-flight passed and no stage failed; a failed
\* pre-flight check (connection failure, engine mismatch, ...) or a failed
\* stage gives a non-zero status.
C20_ExitStatusReflectsOutcome ==
  pc = "done" => (ExitCode = 0 <=> (Passed /\ runErr = NoErr))

\* ---- connections (C21)
\* C21: when Run has returned, no connection opened during pre-flight is
\* still open, whichever way the run ended.
C21_ConnectionsClosedOnReturn ==
  pc = "done" => (sourceConn # "open" /\ destConn # "open")

\* ---- InsertBatch (C22)
\* C22: for a batch of r >= 1 rows of c >= 1 columns the INSERT carries r
\* groups of c placeholders, r*c in all, and the r*c values of the batch in
\* row-major order as its arguments; on PostgreSQL the k-th placeholder of the
\* statement is $k for k = 1..r*c, on MySQL every placeholder is "?".
C22_PlaceholdersRowMajor ==
  (fnCall.fn = "InsertBatch" /\ fnResult.returned /\ Len(fnCall.batch) >= 1) =>
    LET r == Len(fnCall.batch)
        c == fnCall.columns
    IN /\ fnResult.exec
       /\ Len(fnResult.values) = r
       /\ Len(fnResult.args) = r * c
       /\ \A a \in 1..r :
            /\ Len(fnResult.values[a]) = c
            /\ \A b \in 1..c :
                 LET k == (a - 1) * c + b
                 IN /\ fnResult.args[k] = fnCall.batch[a][b]
                    /\ srcEngine = "pgsql" => fnResult.values[a][b] = <<"$", k>>
                    /\ srcEngine = "mysql" => fnResult.values[a][b] = <<"?">>

C22_Witness ==
  /\ fnCall.fn = "InsertBatch" /\ fnResult.returned
  /\ srcEngine = "pgsql"
  /\ Len(fnCall.batch) = MaxInsRows /\ fnCall.columns = MaxInsCols
  /\ fnResult.values[MaxInsRows][MaxInsCols] = <<"$", MaxInsRows * MaxInsCols>>
  /\ fnCall.batch[1] # fnCall.batch[2]

\* ---- stage 3 order (C23)
\* C23: in a live run no CreateIndex call is made after a CreateForeignKey
\* call, and while the index loops are still running no foreign key has been
\* created: every index of every table precedes every foreign key.
C23_IndexesBeforeForeignKeys ==
  /\ LET fks == CallIdx({"CreateForeignKey"})
         idx == CallIdx({"CreateIndex"})
     IN fks # {} => \A a \in fks : \A b \in idx : b < a
  /\ pc = "createIndexes" => CallIdx({"CreateForeignKey"}) = {}

C23_Witness ==
  /\ ~dryRun
  /\ \E a, b \in 1..Len(calls) :
       /\ a < b
       /\ calls[a] = Call("CreateIndex", <<2, 1>>, TRUE)
       /\ calls[b] = Call("CreateForeignKey", <<1, 1>>, TRUE)

\* ---- MySQL create-table statements (C24)
\* C24: the statement CreateTable executes is the original statement without
\* its foreign-key constraints, each removed in full, and with every other
\* part as it was; a statement without a foreign key is executed unchanged.
C24_ForeignKeyClausesRemoved ==
  (fnCall.fn = "CreateTable" /\ fnResult.returned) =>
    fnResult.executed = CreateStmt(fnCall.items, <<>>, fnCall.options)

\* the part of C24 about statements without a foreign key
C24_NoForeignKeyUnchanged ==
  (fnCall.fn = "CreateTable" /\ fnResult.returned /\ fnCall.fks = <<>>) =>
    fnResult.executed = fnCall.CreateStmt

\* ---- the estimate in live mode (C25)
\* offset of the k-th page read of a transfer whose earlier batches were
\* fetched in full
OffsetOfRead(k) == Sum(SubSeq(tFetched, 1, k - 1))

\* C25 as stated: in live mode the transfer goes on to its page reads
\* whatever the estimate query returns, a failure included, and every batch
\* is the page the source holds at the current offset.
C25_EstimateNoEffect ==
  (pc = "direct" /\ ~tDryRun /\ tEstimate.asked) =>
    /\ tpc = "returned" => tReads >= 1
    /\ ~tErrMet =>
         \A k \in 1..Len(tFetched) :
           tFetched[k] = Len(PageQuery(srcCount[tTable], batchSize, OffsetOfRead(k)))

\* C25, amended: in live mode the count the estimate returns has no effect:
\* as long as no call has failed, every batch is the page of batchSize rows
\* the source holds at the current offset, the loop goes on exactly after a
\* full batch, and the rows inserted are the rows fetched, whatever the count
\* was; a failed estimate query ends TransferTable with an error before any
\* page is read.
C25_EstimateCountNoEffect ==
  (pc = "direct" /\ ~tDryRun /\ tEstimate.asked) =>
    /\ tEstimate.err => (tpc = "returned" /\ tRet = "err" /\ tReads = 0
                         /\ tInserts = <<>>)
    /\ ~tErrMet =>
         /\ \A k \in 1..Len(tFetched) :
              tFetched[k] = Len(PageQuery(srcCount[tTable], batchSize, OffsetOfRead(k)))
         /\ \A k \in 1..Len(tInserts) : tInserts[k] = tFetched[k]
         /\ tpc = "returned" =>
              /\ tRet = "ok"
              /\ tFetched[Len(tFetched)] < batchSize
              /\ RowsCopied = srcCount[tTable]

C25_Witness ==
  /\ pc = "direct" /\ ~tDryRun /\ tpc = "returned" /\ tRet = "ok" /\ ~tErrMet
  /\ tEstimate.asked /\ ~tEstimate.err
  /\ tEstimate.count < srcCount[tTable]
  /\ Len(tFetched) >= 2 /\ RowsCopied = srcCount[tTable]

\* ---- dry-run pre-flight (C26, C27)
\* C26: in dry-run mode pre-flight makes no CreateDatabase and no wipeDatabase
\* call and never reaches the steps that make them, whatever the destination
\* holds and whatever the user answers.
C26_DryRunPreflightNoMutation ==
  dryRun =>
    /\ CallIdx(PreflightOps) = {}
    /\ pfpc \notin {"confirmCreate", "createDatabase", "reconnect", "wipe"}
    /\ ~Asked("Create it?", TRUE) /\ ~Asked("Create it?", FALSE)

C26_Witness ==
  /\ dryRun /\ PfDone /\ Passed /\ ~Aborted
  /\ dstTableCount > 0
  /\ Asked("Drop all objects in destination and continue?", TRUE)

\* C27: in dry-run mode a destination database that does not exist makes
\* pre-flight return at once with a passed verdict: the connection check is
\* recorded as passed ("would create"), no question is asked, nothing is
\* created, no destination connection exists, and the DatabaseInfo recorded
\* for the destination has zero tables, zero views and zero size.
C27_DryRunMissingDestSynthesized ==
  \A k \in 1..Len(Checks) :
    Checks[k].Message = "would create" =>
      /\ dryRun /\ PfDone /\ Passed /\ ~Aborted
      /\ Checks[k].Name = "Destination connection" /\ Checks[k].Passed
      /\ k = Len(Checks)
      /\ prompts = <<>>
      /\ CallIdx(PreflightOps) = {}
      /\ destConn = "nil"
      /\ dstTableCount = 0 /\ dstViewCount = 0 /\ dstTotalSize = 0
      /\ dstMajor = srcMajor

C27_Witness ==
  /\ dryRun /\ PfDone /\ Passed
  /\ Len(Checks) = 2 /\ Checks[2].Message = "would create"
  /\ srcMajor = MaxMajor /\ dstMajor = MaxMajor

\* ---- dry-run TransferTable (C28)
\* C28: a TransferTable call with dryRun = true on a table with columns reads
\* no batch, inserts nothing, executes nothing on the destination and never
\* calls the progress callback; when the count query succeeds the call
\* returns RowsCopied equal to the count the query returned.
C28_DryRunReportsEstimate ==
  (pc = "direct" /\ tDryRun /\ columns > 0) =>
    /\ tReads = 0 /\ tFetched = <<>> /\ tInserts = <<>>
    /\ progress = <<>>
    /\ calls = <<>> /\ destData = << <<>> >>
    /\ tpc \notin {"read", "insert"}
    /\ tpc = "returned" =>
         /\ tEstimate.asked
         /\ tRet = (IF tEstimate.err THEN "err" ELSE "ok")
         /\ tRet = "ok" => RowsCopied = tEstimate.count

C28_Witness ==
  /\ pc = "direct" /\ tDryRun /\ columns > 0 /\ hasFn
  /\ tpc = "returned" /\ tRet = "ok"
  /\ RowsCopied = MaxRows /\ tEstimate.count = MaxRows
  /\ srcCount[tTable] # MaxRows

\* ---- quoting (C29)
\* the delimiter the claim names for each function and dialect
DelimiterOf(f, engine) ==
  IF f = "QuoteLiteral" THEN "sq"
  ELSE IF engine = "mysql" THEN "bq" ELSE "dq"

\* un-doubling: every pair dd becomes d; a single d makes the text invalid
RECURSIVE Undouble(_, _)
Undouble(t, d) ==
  IF t = <<>> THEN <<>>
  ELSE IF Head(t) # d THEN <<Head(t)>> \o Undouble(Tail(t), d)
  ELSE IF Len(t) >= 2 /\ t[2] = d THEN <<d>> \o Undouble(Tail(Tail(t)), d)
  ELSE <<"invalid">>

Occurrences(t, d) == Cardinality({k \in 1..Len(t) : t[k] = d})

\* C29: the result of QuoteIdentifier(s) and of QuoteLiteral(s) is s between
\* two delimiters of the dialect, with every delimiter inside s doubled and
\* every other character kept; s is recovered by removing the outer
\* delimiters and un-doubling, and no other input of the same function gives
\* the same result.
C29_QuotingDoublesDelimiter ==
  (fnCall.fn \in {"QuoteIdentifier", "QuoteLiteral"} /\ fnResult.returned) =>
    LET d == DelimiterOf(fnCall.fn, srcEngine)
        out == fnResult.out
        inside == SubSeq(out, 2, Len(out) - 1)
    IN /\ Len(out) = Len(fnCall.s) + Occurrences(fnCall.s, d) + 2
       /\ out[1] = d /\ out[Len(out)] = d
       /\ Undouble(inside, d) = fnCall.s
       /\ \A t \in Strings :
            t # fnCall.s =>
              /\ QuoteIdentifier(srcEngine, t) # QuoteIdentifier(srcEngine, fnCall.s)
              /\ QuoteLiteral(srcEngine, t) # QuoteLiteral(srcEngine, fnCall.s)

C29_Witness ==
  /\ fnCall.fn = "QuoteIdentifier" /\ fnResult.returned /\ srcEngine = "mysql"
  /\ fnCall.s = <<"bq", "a", "bq">>
  /\ fnResult.out = <<"bq", "bq", "bq", "a", "bq", "bq", "bq">>

\* ---- foreign-key checks after a failed stage (C30)
\* foreign-key enforcement is suspended on the destination session: a
\* DisableForeignKeyChecks call succeeded and no EnableForeignKeyChecks call
\* was made after it
FkSuspended ==
  \E d \in CallIdx({"DisableForeignKeyChecks"}) :
    /\ calls[d].ok
    /\ \A e \in CallIdx({"EnableForeignKeyChecks"}) : e < d

\* C30: when a live run has failed in stage 2, 3, 4 or 5 after
\* DisableForeignKeyChecks succeeded, the run is over, it has made no
\* EnableForeignKeyChecks call, and foreign-key enforcement is still
\* suspended.
C30_FailedStageLeavesFkDisabled ==
  (/\ ~dryRun /\ runErr # NoErr
   /\ stageLog # <<>> /\ stageLog[Len(stageLog)] \in 2..5
   /\ \E d \in CallIdx({"DisableForeignKeyChecks"}) : calls[d].ok) =>
    /\ pc = "done" /\ runRet = "err"
    /\ CallIdx({"EnableForeignKeyChecks"}) = {}
    /\ FkSuspended

C30_Witness ==
  /\ ~dryRun /\ pc = "done" /\ runRet = "err"
  /\ runErr.kind = "CreateView"
  /\ stageLog = <<1, 2, 3, 4>>
  /\ FkSuspended
  /\ \E k \in CallIdx({"TransferTable returned"}) : calls[k].ok

\* ---- the final confirmation of a live run (C31)
\* the last question asked was "Proceed with migration?" and the user
\* answered no
DeclinedFinal ==
  /\ prompts # <<>>
  /\ prompts[Len(prompts)].q = "Proceed with migration?"
  /\ ~prompts[Len(prompts)].answer

\* the final confirmation was given before the call at index k
ConfirmedBefore(k) ==
  \E p \in 1..Len(prompts) :
    /\ prompts[p].q = "Proceed with migration?"
    /\ prompts[p].answer /\ prompts[p].at < k

\* C31 as stated: a live run that ends on a declined "Proceed with
\* migration?" has created no database and dropped nothing, and in a live run
\* every modification of the destination server (CreateDatabase,
\* wipeDatabase, the destination calls of the stages) comes after that
\* confirmation was given.
C31_NoMutationBeforeFinalConfirm ==
  /\ DeclinedFinal => CallIdx(PreflightOps) = {}
  /\ ~dryRun =>
       \A k \in CallIdx(PreflightOps \cup StageDestOps) : ConfirmedBefore(k)

\* C31, amended: a live run that ends on a declined "Proceed with
\* migration?" has returned without an error and without starting a stage or
\* making a stage call; the only calls it has made on the destination server
\* are those of pre-flight (at most one CreateDatabase and one wipeDatabase),
\* and pre-flight makes each of them only after the user confirmed it at its
\* own prompt.  In a live run every stage call comes after the final
\* confirmation was given.
C31_DeclineLeavesOnlyPreflightChanges ==
  /\ DeclinedFinal =>
       /\ ~dryRun /\ pc = "done" /\ runRet = "nil" /\ stageLog = <<>>
       /\ Len(calls) = prompts[Len(prompts)].at
       /\ \A k \in 1..Len(calls) : calls[k].op \in PreflightOps
       /\ Count(CallIdx({"CreateDatabase"})) <= 1
       /\ Count(CallIdx({"wipeDatabase"})) <= 1
  /\ ~dryRun =>
       /\ \A k \in CallIdx(StageCallOps) : ConfirmedBefore(k)
       /\ stageLog # <<>> => ConfirmedBefore(Len(calls) + 1)
  /\ pfpc # "consumed" =>
       /\ \A k \in CallIdx({"CreateDatabase"}) :
            \E p \in 1..Len(prompts) :
              /\ prompts[p].q = "Create it?" /\ prompts[p].answer
              /\ prompts[p].at < k
       /\ \A k \in CallIdx({"wipeDatabase"}) :
            \E p \in 1..Len(prompts) :
              /\ prompts[p].q = "Drop all objects in destination and continue?"
              /\ prompts[p].answer /\ prompts[p].at < k

C31_Witness ==
  /\ DeclinedFinal /\ pc = "done"
  /\ \E k \in CallIdx({"CreateDatabase"}) : calls[k].ok
  /\ \E k \in CallIdx({"wipeDatabase"}) : calls[k].ok

\* ---- row counts that could not be read (C32)
\* the count finalize compared with the destination count of call k is the
\* row count of the source table: finalize went on after call k, so the two
\* counts it held were equal, and the one of the destination is the table's
\* count when the query succeeded and 0 when it failed
SourceCountRead(k) ==
  srcCount[calls[k].arg] =
    EstimateRows(calls[k].ok, Len(destData[calls[k].arg])).count

\* C32 as stated: a live run whose finalize could not read the row count of
\* some table, on the source or on the destination, does not succeed: in a
\* successful live run every count query on the destination succeeded and
\* every source count finalize compared was the one read from the table.
C32_UnreadCountsNeverVerified ==
  LiveSuccess =>
    \A k \in CallIdx({"EstimateRows(dest)"}) :
      calls[k].ok /\ SourceCountRead(k)

\* ---- every row exactly once (C33)
\* C33 as stated: the page queries of one call see the same rows in the same
\* order (the table holds the rows 1..n throughout); a live TransferTable
\* that returned success has inserted the rows 1..n into the destination,
\* each once and in that order, and at every page read the offset is the
\* number of rows inserted so far.
C33_EveryRowOnceInOrder ==
  (pc = "direct" /\ ~tDryRun) =>
    /\ offset = Len(destData[tTable])
    /\ (tpc = "returned" /\ tRet = "ok") =>
         destData[tTable] = [j \in 1..srcCount[tTable] |-> j]

\* ---- the verdict of a pre-flight result (C34)
\* the verdict migrator.Run reads from a result: "if preflightResult.Aborted"
\* comes first, "if !preflightResult.Passed" second
Verdict ==
  IF Aborted THEN "aborted" ELSE IF Passed THEN "passed" ELSE "failed"

\* C34 as stated: a result pre-flight returns is never marked aborted and
\* passed at once.
C34_AbortedNeverPassed ==
  PfDone => ~(Aborted /\ Passed)

\* C34, amended: pre-flight marks a result aborted by setting Aborted and
\* leaves Passed as it is, so every aborted result is also marked passed and
\* no result is both aborted and failed; Run reads Aborted first, so a result
\* has one verdict, and Run starts a stage only on the verdict passed and
\* returns without an error on the other two.
C34_AbortedKeepsPassedAndStopsRun ==
  /\ Aborted => Passed
  /\ (Aborted \/ ~Passed) => pfpc \in {"returned", "consumed"}
  /\ (pfpc = "consumed" /\ Verdict # "passed") =>
       (pc = "done" /\ runRet = "nil" /\ stageLog = <<>>)
  /\ (stageLog # <<>> \/ pc \notin {"preflight", "done"}) => Verdict = "passed"

C34_Witness ==
  /\ PfDone /\ Aborted /\ Passed
  /\ Asked("Create it?", FALSE)
  /\ sourceConn = "open"

\* ---- foreign-key checks after wipeDatabase (C35)
\* C35 as stated: when wipeDatabase has returned on MySQL, with or without an
\* error, no session of the destination is left with foreign-key checks
\* disabled.
C35_WipeReenablesFkChecks ==
  (fnCall.fn = "wipeDatabase" /\ ppc = "returned" /\ dstEngine = "mysql") =>
    \A s \in 1..Len(sessions) : sessions[s]

\* ---- the session of the foreign-key bracket (C36)
\* C36 as stated: every batch insert runs in the session in which
\* DisableForeignKeyChecks ran, with foreign-key checks not enforced, and
\* EnableForeignKeyChecks runs in that same session.
C36_FkBracketInOneSession ==
  fnCall.fn = "dataStage" =>
    \A k \in 2..Len(execLog) :
      /\ execLog[k].session = execLog[1].session
      /\ execLog[k].stmt = "INSERT INTO" => ~execLog[k].enforced

\* ---- connections the stages use (C37)
\* a stage function is running or about to run
InStages == pc \notin {"preflight", "confirm", "done", "direct"}

\* C37: while the stages run the source connection is open, and in live
\* mode so is the destination connection; a call on the source (an
\* extraction) is only ever made by a run that holds a source connection, a
\* call on the destination only by a run that holds a destination connection;
\* a dry run that pre-flight passed without a destination connection goes
\* through its stages without a single call on the destination.
C37_NoStageOnNilConnection ==
  /\ InStages => /\ sourceConn = "open"
                 /\ ~dryRun => destConn = "open"
  /\ stageLog # <<>> => sourceConn # "nil"
  /\ CallIdx(StageDestOps) # {} => destConn # "nil"
  /\ (stageLog # <<>> /\ destConn = "nil") =>
       (dryRun /\ CallIdx(StageDestOps) = {} /\ tpc = "idle")

C37_Witness ==
  /\ dryRun /\ destConn = "nil" /\ sourceConn = "closed"
  /\ pc = "done" /\ runRet = "nil"
  /\ stageLog = <<1, 2, 3, 4, 5, 6>>
  /\ Len(tables) >= 1 /\ views >= 1

\* ---- the collaborators of the Migrator (C38)
\* C38: a result pre-flight returns as passed belongs to a configuration
\* whose source engine is mysql or pgsql (Connect refuses any other engine, so
\* the source connection check fails), and so the extractor, the applier and
\* the transferer Run builds from the source engine are not nil in any state
\* where a stage has started or a stage call was made.
C38_PassedMeansSupportedEngine ==
  /\ (pfpc \in {"returned", "consumed"} /\ Passed) => srcEngine \in Engines
  /\ sourceConn # "nil" => srcEngine \in Engines
  /\ (stageLog # <<>> \/ InStages
        \/ CallIdx(StageOps \cup StageDestOps) # {}) =>
       /\ NewExtractor(srcEngine) # "nil"
       /\ NewApplier(srcEngine) # "nil"
       /\ NewTransferer(srcEngine) # "nil"
  /\ srcEngine \notin Engines =>
       (pfpc \in {"returned", "consumed"} =>
          ~Passed /\ ~Aborted /\ calls = <<>> /\ stageLog = <<>>)

C38_Witness ==
  /\ pfpc = "consumed" /\ Passed /\ ~Aborted
  /\ srcEngine = "pgsql" /\ dstEngine = "pgsql"
  /\ pc = "setSequences"
  /\ CallIdx({"ExtractSequences"}) # {}
  /\ CallIdx({"CreateTable"}) # {}
  /\ NewExtractor(srcEngine) = "PostgresExtractor"

\* a name without a quote character
QuoteFree(name) == \A at \in 1..Len(name) : name[at] \notin {"bq", "dq", "sq"}

SideBySide == fnCall.fn = "TransferTable" /\ "base" \in DOMAIN fnResult

ExecsOf(f) == {at \in 1..Len(f.trace) : f.trace[at].op = "Exec"}

\* C39: for a table name and column names without a quote character,
\* BaseTransferer.TransferTable and the per-engine TransferTable it replaced,
\* given the same arguments and the same answers from the databases, issue the
\* same statements with the same arguments in the same order, make the same
\* progress callbacks and return the same RowsCopied or the same error
C39_BaseEqualsLegacy ==
  (SideBySide /\ QuoteFree(fnCall.table) /\ QuoteFree(fnCall.col))
    => /\ fnResult.base.trace = fnResult.legacy.trace
       /\ fnResult.base.pc = fnResult.legacy.pc
       /\ fnResult.base.err = fnResult.legacy.err
       /\ fnResult.base.RowsCopied = fnResult.legacy.RowsCopied

\* a live PostgreSQL transfer of a two-column table with plain names that
\* inserted two batches, reported progress and returned without an error
C39_Witness ==
  /\ SideBySide /\ fnResult.returned
  /\ QuoteFree(fnCall.table) /\ QuoteFree(fnCall.col)
  /\ fnCall.engine = "pgsql" /\ ~fnCall.dryRun /\ fnCall.hasFn
  /\ Len(fnResult.base.columns) = 2
  /\ Cardinality(ExecsOf(fnResult.base)) >= 2
  /\ fnResult.base.err = "nil"
  /\ fnResult.base.RowsCopied = fnCall.rows

====
